---- MODULE Spec2Model ----
(***************************************************************************)
(* A model of the charts-rs rendering core: the Color value type           *)
(* (charts/color.rs), the SVG primitive encoders (charts/component.rs)     *)
(* and the bar-family chart drivers (charts/bar_chart.rs,                  *)
(* charts/horizontal_bar_chart.rs), together with the canvas, the axis     *)
(* value engine and the number formatter they call.                        *)
(*                                                                         *)
(* Strings are sequences of one-character strings, so that formatting and  *)
(* parsing are computed character by character.  Floating point numbers    *)
(* are exact rationals [n, d]; d = 0 stands for the IEEE infinities and    *)
(* NaN that a division by zero produces.  Rounding error of f32 is not     *)
(* modelled.                                                               *)
(***************************************************************************)
EXTENDS Integers, Sequences, FiniteSets, TLC

VARIABLES
    \* ---- Color (color.rs)
    color,        \* the Color value at hand
    text,         \* the string produced by hex() / handed to From<&str>
    parsed,       \* the Color that From<&str> returned
    cstep,        \* "new" | "hex" | "parsed"
    \* ---- shape encoders (component.rs)
    shape,        \* the shape descriptor whose svg() was called
    markup,       \* what svg() returned
    \* ---- axis value engine (util.rs)
    axis_params,  \* AxisValueParams {data_list, split_number}
    axis_values,  \* the AxisValues that get_axis_values returned
    offset_call,  \* the last get_offset_height call: value, extent, result
    \* ---- chart drivers (bar_chart.rs, horizontal_bar_chart.rs)
    cfg,          \* the chart value (self)
    engine,       \* how the axis engine settles what its description leaves open
    pc,           \* position in svg()
    canvas,       \* the canvas view held in the local variable c
    components,   \* the fragment list shared by all views of the canvas
    loc,          \* the local variables of svg()
    out,          \* what svg() returned
    prev_out,     \* what the previous call of svg() returned
    renders,      \* calls of svg() so far
    finalized,    \* calls of Canvas::svg within the current render
    calls         \* history: the view path and the shape of every draw call

colorVars == <<color, text, parsed, cstep>>
shapeVars == <<shape, markup>>
axisVars == <<axis_params, axis_values, offset_call>>
chartVars == <<cfg, engine, pc, canvas, components, loc, out, prev_out, renders, finalized,
               calls>>
vars == <<color, text, parsed, cstep, shape, markup,
          axis_params, axis_values, offset_call,
          cfg, engine, pc, canvas, components, loc, out, prev_out, renders, finalized, calls>>

(***************************************************************************)
(* Integer helpers                                                         *)
(***************************************************************************)
Min(a, b) == IF a < b THEN a ELSE b
Max(a, b) == IF a > b THEN a ELSE b
Abs(a) == IF a < 0 THEN -a ELSE a

(***************************************************************************)
(* Numbers: a float is the exact rational n/d, d >= 0, in lowest terms.    *)
(* d = 0 is what IEEE arithmetic gives for a division by zero: +inf (n >   *)
(* 0), -inf (n < 0) or NaN (n = 0).                                        *)
(***************************************************************************)
RECURSIVE Gcd(_, _)
Gcd(a, b) == IF b = 0 THEN a ELSE Gcd(b, a % b)
Sign(a) == IF a > 0 THEN 1 ELSE IF a < 0 THEN -1 ELSE 0

R(n, d) ==
    IF d = 0 THEN [n |-> Sign(n), d |-> 0]
    ELSE LET g == Gcd(Abs(n), Abs(d))
         IN  [n |-> Sign(d) * (n \div g), d |-> Abs(d) \div g]
F(i) == [n |-> i, d |-> 1]
IsFinite(x) == x.d # 0
IsNaN(x) == x.d = 0 /\ x.n = 0

RAdd(x, y) ==
    IF x.d = 0 /\ y.d = 0 THEN (IF x.n = y.n THEN x ELSE R(0, 0))
    ELSE R(x.n * y.d + y.n * x.d, x.d * y.d)
RNeg(x) == [n |-> -x.n, d |-> x.d]
RSub(x, y) == RAdd(x, RNeg(y))
RMul(x, y) == R(x.n * y.n, x.d * y.d)
RDiv(x, y) ==
    IF y.d = 0 THEN (IF x.d = 0 \/ y.n = 0 THEN R(0, 0) ELSE F(0))
    ELSE IF y.n = 0 THEN R(x.n, 0)
    ELSE R(x.n * y.d * Sign(y.n), x.d * Abs(y.n))
\* Comparisons are false when either side is NaN, as for floats.
RLt(x, y) ==
    /\ ~IsNaN(x) /\ ~IsNaN(y)
    /\ IF x.d = 0 /\ y.d = 0 THEN x.n < y.n
       ELSE IF x.d = 0 THEN x.n < 0
       ELSE IF y.d = 0 THEN y.n > 0
       ELSE x.n * y.d < y.n * x.d
RLe(x, y) == ~IsNaN(x) /\ ~IsNaN(y) /\ (x = y \/ RLt(x, y))
RGt(x, y) == RLt(y, x)

(***************************************************************************)
(* Strings                                                                 *)
(***************************************************************************)
HexDigits == <<"0", "1", "2", "3", "4", "5", "6", "7", "8", "9",
               "A", "B", "C", "D", "E", "F">>
LowerHexDigits == <<"0", "1", "2", "3", "4", "5", "6", "7", "8", "9",
                    "a", "b", "c", "d", "e", "f">>

\* The UTF-8 length of a character: str::len() counts bytes.
ByteLenCh(ch) == IF ch = "é" THEN 2 ELSE 1
RECURSIVE ByteLen(_)
ByteLen(s) == IF s = <<>> THEN 0 ELSE ByteLenCh(Head(s)) + ByteLen(Tail(s))

\* substring::Substring::substring(start, end): a character range, clamped
\* to the string, empty when end <= start.
Substring(s, start, end) ==
    IF end <= start THEN <<>>
    ELSE SubSeq(s, Min(start, Len(s)) + 1, Min(end, Len(s)))

\* char::to_digit(16): the value of a hex digit, -1 for any other character.
ToDigit16(ch) ==
    IF \E i \in 1..16 : HexDigits[i] = ch
        THEN (CHOOSE i \in 1..16 : HexDigits[i] = ch) - 1
    ELSE IF \E i \in 1..16 : LowerHexDigits[i] = ch
        THEN (CHOOSE i \in 1..16 : LowerHexDigits[i] = ch) - 1
    ELSE -1

RECURSIVE AccumulateU8(_, _)
AccumulateU8(digits, acc) ==
    IF acc < 0 THEN -1
    ELSE IF digits = <<>> THEN acc
    ELSE LET d == ToDigit16(Head(digits))
         IN  IF d < 0 \/ acc * 16 + d > 255 THEN -1
             ELSE AccumulateU8(Tail(digits), acc * 16 + d)

\* u8::from_str_radix(s, 16): the value, or -1 for Err.  An unsigned type
\* accepts a leading '+' and no '-'.
FromStrRadix16(s) ==
    IF s = <<>> THEN -1
    ELSE IF Head(s) \in {"+", "-"} /\ Len(s) = 1 THEN -1
    ELSE IF Head(s) = "+" THEN AccumulateU8(Tail(s), 0)
    ELSE AccumulateU8(s, 0)

\* format!("{:02X}", byte)
UpperHex2(n) == <<HexDigits[(n \div 16) + 1], HexDigits[(n % 16) + 1]>>

(***************************************************************************)
(* Color (color.rs)                                                        *)
(***************************************************************************)
Color(r, g, b, a) == [r |-> r, g |-> g, b |-> b, a |-> a]
ColorDefault == Color(0, 0, 0, 0)

hex_swapped(c) == <<"#">> \o UpperHex2(c.r) \o UpperHex2(c.b) \o UpperHex2(c.g)
hex(c) == <<"#">> \o UpperHex2(c.r) \o UpperHex2(c.g) \o UpperHex2(c.b)

is_transparent(c) == c.a = 0
is_nontransparent(c) == c.a = 255

parse_hex(s) == LET v == FromStrRadix16(s) IN IF v < 0 THEN 0 ELSE v

\* impl From<&str> for Color
ColorFrom(value) ==
    IF ~(value # <<>> /\ Head(value) = "#") THEN ColorDefault
    ELSE LET h == Substring(value, 1, ByteLen(value))
         IN  IF ByteLen(h) = 3
             THEN Color(parse_hex(Substring(h, 0, 1)),
                        parse_hex(Substring(h, 1, 2)),
                        parse_hex(Substring(h, 2, 3)), 255)
             ELSE Color(parse_hex(Substring(h, 0, 2)),
                        parse_hex(Substring(h, 2, 4)),
                        parse_hex(Substring(h, 4, 6)), 255)

\* Channel values the colour machine draws from: one channel ranges over
\* every byte while the other two take the sample values.
SampleBytes == {0, 9, 171, 255}
SampleAlphas == {0, 51, 255}
Bytes == 0..255
Colors ==
    {Color(r, g, b, a) : r \in Bytes, g \in SampleBytes, b \in SampleBytes,
                         a \in SampleAlphas}
    \cup {Color(r, g, b, a) : r \in SampleBytes, g \in Bytes, b \in SampleBytes,
                              a \in SampleAlphas}
    \cup {Color(r, g, b, a) : r \in SampleBytes, g \in SampleBytes, b \in Bytes,
                              a \in SampleAlphas}

(***************************************************************************)
(* The number formatter and the tag encoder                                *)
(***************************************************************************)
DecDigits == <<"0", "1", "2", "3", "4", "5", "6", "7", "8", "9">>
RECURSIVE DecString(_)
DecString(n) ==
    IF n < 10 THEN <<DecDigits[n + 1]>>
    ELSE DecString(n \div 10) \o <<DecDigits[(n % 10) + 1]>>

\* x rounded to a whole number of tenths, ties to even.
RoundTenths(x) ==
    LET q == (10 * x.n) \div x.d
        r == (10 * x.n) % x.d
    IN  IF 2 * r > x.d THEN q + 1
        ELSE IF 2 * r = x.d THEN q + (q % 2)
        ELSE q

\* util::format_float: the shared fixed-precision formatter, one decimal.
format_float(x) ==
    IF IsNaN(x) THEN <<"N", "a", "N">>
    ELSE IF x.d = 0 THEN (IF x.n < 0 THEN <<"-">> ELSE <<>>) \o <<"i", "n", "f">>
    ELSE LET t == RoundTenths(x)
         IN  (IF t < 0 THEN <<"-">> ELSE <<>>)
             \o DecString(Abs(t) \div 10) \o <<".">>
             \o <<DecDigits[(Abs(t) % 10) + 1]>>

\* Option<T>
None == [some |-> FALSE]
Some(v) == [some |-> TRUE, v |-> v]

opacity(c) == R(c.a, 255)

convert_opacity_inverted(c) ==
    IF is_transparent(c) THEN <<>> ELSE format_float(opacity(c))
convert_opacity(c) ==
    IF is_nontransparent(c) THEN <<>> ELSE format_float(opacity(c))

\* format!("{}", f) of a whole number of tenths, as far as it is used below.
format_option_float_plain(value) ==
    IF value.some THEN DecString(value.v.n \div value.v.d) ELSE <<>>
format_option_float(value) ==
    IF value.some THEN format_float(value.v) ELSE <<>>

Attr(k, v) == [k |-> k, v |-> v]

RECURSIVE AttrsToString(_)
AttrsToString(attrs) ==
    IF attrs = <<>> THEN <<>>
    ELSE <<" ", Head(attrs).k, "=\"">> \o Head(attrs).v \o <<"\"">>
         \o AttrsToString(Tail(attrs))

\* The attributes that Display writes: those with a non-empty key and value.
EmittedAttrs_all(attrs) == attrs
EmittedAttrs(attrs) == SelectSeq(attrs, LAMBDA a : a.k # "" /\ a.v # <<>>)

\* impl Display for SVGTag: the string, kept together with the attributes
\* that were written into it.  data is Option<String>.
SVGTagToString(tag, attrs, data) ==
    [tag |-> tag,
     attrs |-> EmittedAttrs(attrs),
     str |-> <<"<", tag>> \o AttrsToString(EmittedAttrs(attrs))
             \o (IF data.some
                 THEN <<">\n">> \o data.v \o <<"\n</", tag, ">">>
                 ELSE <<"/>">>)]

\* "".to_string()
EmptyString == [tag |-> "", attrs |-> <<>>, str |-> <<>>]

StrokeAttrs(color_opt) ==
    IF color_opt.some
    THEN <<Attr("stroke", hex(color_opt.v)),
           Attr("stroke-opacity", convert_opacity(color_opt.v))>>
    ELSE <<>>
FillAttrs(color_opt) ==
    IF color_opt.some
    THEN <<Attr("fill", hex(color_opt.v)),
           Attr("fill-opacity", convert_opacity(color_opt.v))>>
    ELSE <<>>

(***************************************************************************)
(* Shapes (component.rs)                                                   *)
(***************************************************************************)
LineSvg_unguarded(s) ==
    SVGTagToString("line",
        <<Attr("stroke-width", format_float(s.stroke_width)),
          Attr("x1", format_float(s.left)),
          Attr("y1", format_float(s.top)),
          Attr("x2", format_float(s.right)),
          Attr("y2", format_float(s.bottom))>>
        \o StrokeAttrs(s.color),
        None)
LineSvg(s) ==
    IF RLe(s.stroke_width, F(0)) THEN EmptyString
    ELSE SVGTagToString("line",
            <<Attr("stroke-width", format_float(s.stroke_width)),
              Attr("x1", format_float(s.left)),
              Attr("y1", format_float(s.top)),
              Attr("x2", format_float(s.right)),
              Attr("y2", format_float(s.bottom))>>
            \o StrokeAttrs(s.color),
            None)

RectSvg(s) ==
    SVGTagToString("rect",
        <<Attr("x", format_float(s.left)),
          Attr("y", format_float(s.top)),
          Attr("width", format_float(s.width)),
          Attr("height", format_float(s.height)),
          Attr("rx", format_option_float(s.rx)),
          Attr("ry", format_option_float(s.ry))>>
        \o StrokeAttrs(s.color) \o FillAttrs(s.fill),
        None)

CircleSvg(s) ==
    SVGTagToString("circle",
        <<Attr("cx", format_float(s.cx)),
          Attr("cy", format_float(s.cy)),
          Attr("r", format_float(s.r)),
          Attr("stroke-width", format_float(s.stroke_width))>>
        \o StrokeAttrs(s.color)
        \o (IF s.fill.some
            THEN <<Attr("fill-opacity", convert_opacity(s.fill.v)),
                   Attr("fill", hex(s.fill.v))>>
            ELSE <<Attr("fill", <<"n", "o", "n", "e">>)>>),
        None)

TextSvg(s) ==
    IF s.text = <<>> THEN EmptyString
    ELSE SVGTagToString("text",
            <<Attr("font-family", s.font_family),
              Attr("font-size", format_float(s.font_size)),
              Attr("x", format_option_float(s.x)),
              Attr("y", format_option_float(s.y)),
              Attr("dx", format_option_float(s.dx)),
              Attr("dy", format_option_float(s.dy)),
              Attr("font-weight", IF s.font_weight.some THEN s.font_weight.v ELSE <<>>),
              Attr("transform", IF s.transform.some THEN s.transform.v ELSE <<>>)>>
            \o (IF s.fill.some
                THEN <<Attr("fill", hex(s.fill.v)),
                       Attr("opacity", convert_opacity(s.fill.v))>>
                ELSE <<>>),
            Some(s.text))

RECURSIVE JoinStrings(_, _)
JoinStrings(strs, sep) ==
    IF strs = <<>> THEN <<>>
    ELSE IF Len(strs) = 1 THEN Head(strs)
    ELSE Head(strs) \o sep \o JoinStrings(Tail(strs), sep)

Point(x, y) == [x |-> x, y |-> y]

\* format!("{},{}", format_float(p.x), format_float(p.y)) of every point
PointPairs(points) ==
    [i \in 1..Len(points) |->
        format_float(points[i].x) \o <<",">> \o format_float(points[i].y)]

\* format!("{} {} {}", action, format_float(p.x), format_float(p.y))
PathCommand(action, p) ==
    <<action, " ">> \o format_float(p.x) \o <<" ">> \o format_float(p.y)

\* "M" for the first point, "L" for every other one
StraightCommands_moves(points) ==
    [i \in 1..Len(points) |-> PathCommand("M", points[i])]
StraightCommands(points) ==
    [i \in 1..Len(points) |-> PathCommand(IF i = 1 THEN "M" ELSE "L", points[i])]

PolylineSvg(s) ==
    IF RLe(s.stroke_width, F(0)) THEN EmptyString
    ELSE SVGTagToString("polyline",
            <<Attr("fill", <<"n", "o", "n", "e">>),
              Attr("stroke-width", format_float(s.stroke_width)),
              Attr("points", JoinStrings(PointPairs(s.points), <<" ">>))>>
            \o StrokeAttrs(s.color),
            None)

PolygonSvg(s) ==
    IF s.points = <<>> THEN EmptyString
    ELSE SVGTagToString("polygon",
            <<Attr("points", JoinStrings(PointPairs(s.points), <<" ">>))>>
            \o StrokeAttrs(s.color) \o FillAttrs(s.fill),
            None)

\* path::SmoothCurve::to_string: a move to the first point, then one cubic
\* segment per further point.  The control points sit at the horizontal
\* midpoint of each segment, level with its two end points, so the curve
\* passes through every point with a continuous (horizontal) tangent.
SmoothSegment(p, q) ==
    LET mx == RDiv(RAdd(p.x, q.x), F(2))
    IN  <<"C", " ">> \o format_float(mx) \o <<" ">> \o format_float(p.y)
        \o <<",", " ">> \o format_float(mx) \o <<" ">> \o format_float(q.y)
        \o <<",", " ">> \o format_float(q.x) \o <<" ">> \o format_float(q.y)
SmoothCurveToString(points) ==
    IF points = <<>> THEN <<>>
    ELSE JoinStrings(
            [i \in 1..Len(points) |->
                IF i = 1 THEN PathCommand("M", points[1])
                ELSE SmoothSegment(points[i - 1], points[i])],
            <<" ">>)

SmoothLineSvg(s) ==
    IF s.points = <<>> \/ RLe(s.stroke_width, F(0)) THEN EmptyString
    ELSE SVGTagToString("path",
            <<Attr("fill", <<"n", "o", "n", "e">>),
              Attr("d", SmoothCurveToString(s.points))>>
            \o StrokeAttrs(s.color),
            None)

SmoothLineFillSvg(s) ==
    IF s.points = <<>> \/ is_transparent(s.fill) THEN EmptyString
    ELSE LET last == s.points[Len(s.points)]
             first == s.points[1]
             fill_path == JoinStrings(
                 <<PathCommand("M", last),
                   PathCommand("L", Point(last.x, s.bottom)),
                   PathCommand("L", Point(first.x, s.bottom)),
                   PathCommand("L", first)>>, <<" ">>)
         IN  SVGTagToString("path",
                <<Attr("d", SmoothCurveToString(s.points) \o fill_path),
                  Attr("fill", hex(s.fill)),
                  Attr("fill-opacity", convert_opacity(s.fill))>>,
                None)

StraightLineSvg(s) ==
    IF s.points = <<>> \/ RLe(s.stroke_width, F(0)) THEN EmptyString
    ELSE SVGTagToString("path",
            <<Attr("fill", <<"n", "o", "n", "e">>),
              Attr("d", JoinStrings(StraightCommands(s.points), <<" ">>))>>
            \o StrokeAttrs(s.color),
            None)

StraightLineFillSvg_open(s) ==
    IF s.points = <<>> \/ is_transparent(s.fill) THEN EmptyString
    ELSE SVGTagToString("path",
            <<Attr("d", JoinStrings(StraightCommands(s.points), <<" ">>)),
              Attr("fill", hex(s.fill)),
              Attr("fill-opacity", convert_opacity(s.fill))>>,
            None)
StraightLineFillSvg(s) ==
    IF s.points = <<>> \/ is_transparent(s.fill) THEN EmptyString
    ELSE LET last == s.points[Len(s.points)]
             first == s.points[1]
             points == s.points
                       \o <<Point(last.x, s.bottom), Point(first.x, s.bottom), first>>
         IN  SVGTagToString("path",
                <<Attr("d", JoinStrings(StraightCommands(points), <<" ">>)),
                  Attr("fill", hex(s.fill)),
                  Attr("fill-opacity", convert_opacity(s.fill))>>,
                None)

\* The lines of a grid: (left, top, right, bottom) of every vertical that is
\* not hidden, then of every horizontal that is not hidden.
GridVerticalLines(s) ==
    IF s.verticals = 0 THEN <<>>
    ELSE LET unit == RDiv(RSub(s.right, s.left), F(s.verticals))
             shown == SelectSeq([k \in 1..(s.verticals + 1) |-> k - 1],
                                LAMBDA index : index \notin s.hidden_verticals)
         IN  [k \in 1..Len(shown) |->
                LET x == RAdd(s.left, RMul(unit, F(shown[k])))
                IN  <<x, s.top, x, s.bottom>>]
GridHorizontalLines(s) ==
    IF s.horizontals = 0 THEN <<>>
    ELSE LET unit == RDiv(RSub(s.bottom, s.top), F(s.horizontals))
             shown == SelectSeq([k \in 1..(s.horizontals + 1) |-> k - 1],
                                LAMBDA index : index \notin s.hidden_horizontals)
         IN  [k \in 1..Len(shown) |->
                LET y == RAdd(s.top, RMul(unit, F(shown[k])))
                IN  <<s.left, y, s.right, y>>]

GridSvg(s) ==
    IF (s.verticals = 0 /\ s.horizontals = 0) \/ RLe(s.stroke_width, F(0))
    THEN EmptyString
    ELSE LET points == GridVerticalLines(s) \o GridHorizontalLines(s)
             data == [k \in 1..Len(points) |->
                        LineSvg([kind |-> "Line", color |-> None,
                                 stroke_width |-> s.stroke_width,
                                 left |-> points[k][1], top |-> points[k][2],
                                 right |-> points[k][3],
                                 bottom |-> points[k][4]]).str]
         IN  SVGTagToString("g", StrokeAttrs(s.color),
                            Some(JoinStrings(data, <<>>)))

\* Component: the closed set of shape variants, each with its own encoder.
ComponentSvg(s) ==
    CASE s.kind = "Line" -> LineSvg(s)
      [] s.kind = "Rect" -> RectSvg(s)
      [] s.kind = "Polyline" -> PolylineSvg(s)
      [] s.kind = "Circle" -> CircleSvg(s)
      [] s.kind = "Polygon" -> PolygonSvg(s)
      [] s.kind = "Text" -> TextSvg(s)
      [] s.kind = "SmoothLine" -> SmoothLineSvg(s)
      [] s.kind = "StraightLine" -> StraightLineSvg(s)
      [] s.kind = "SmoothLineFill" -> SmoothLineFillSvg(s)
      [] s.kind = "StraightLineFill" -> StraightLineFillSvg(s)
      [] s.kind = "Grid" -> GridSvg(s)

(***************************************************************************)
(* The axis value engine (util.rs): get_axis_values and                    *)
(* AxisValues::get_offset_height.                                          *)
(***************************************************************************)
RECURSIVE RMinOf(_)
RMinOf(list) ==
    IF Len(list) = 1 THEN list[1]
    ELSE LET m == RMinOf(Tail(list)) IN IF RLt(list[1], m) THEN list[1] ELSE m
RECURSIVE RMaxOf(_)
RMaxOf(list) ==
    IF Len(list) = 1 THEN list[1]
    ELSE LET m == RMaxOf(Tail(list)) IN IF RGt(list[1], m) THEN list[1] ELSE m

RECURSIVE Pow10Int(_)
Pow10Int(e) == IF e = 0 THEN 1 ELSE 10 * Pow10Int(e - 1)
Pow10(e) == IF e >= 0 THEN F(Pow10Int(e)) ELSE R(1, Pow10Int(-e))

\* The exponent e with 10^e <= x < 10^(e+1), for x > 0.
RECURSIVE FloorLog10(_)
FloorLog10(x) ==
    IF RLe(F(10), x) THEN 1 + FloorLog10(RDiv(x, F(10)))
    ELSE IF RLt(x, F(1)) THEN FloorLog10(RMul(x, F(10))) - 1
    ELSE 0

RAbs(x) == IF x.n < 0 THEN RNeg(x) ELSE x
RFloor(x) == x.n \div x.d

\* A step is c * 10^e with c in {1, 2, 5}.
Step(c, e) == IF c = 10 THEN [c |-> 1, e |-> e + 1] ELSE [c |-> c, e |-> e]
StepValue(st) == RMul(F(st.c), Pow10(st.e))
NextStep(st) ==
    IF st.c = 1 THEN Step(2, st.e)
    ELSE IF st.c = 2 THEN Step(5, st.e)
    ELSE Step(10, st.e)

\* The candidate multiplier nearest to a mantissa m in [1, 10); of two
\* equally near ones, the lower or the upper as tie says.
NearestCandidate(m, tie) ==
    LET cands == {1, 2, 5, 10}
        near == {c \in cands :
                    \A o \in cands : RLe(RAbs(RSub(m, F(c))), RAbs(RSub(m, F(o))))}
        lo == CHOOSE c \in near : \A o \in near : c <= o
        hi == CHOOSE c \in near : \A o \in near : c >= o
    IN  IF tie = "lower" THEN lo ELSE hi

\* The raw step snapped to a nice number.
SnapStep(raw, tie) ==
    LET e == FloorLog10(raw)
    IN  Step(NearestCandidate(RDiv(raw, Pow10(e)), tie), e)

MinTick(mn, st) == RMul(F(RFloor(RDiv(mn, StepValue(st)))), StepValue(st))

\* Expanding outward: the step grows to the next candidate until the ticks
\* from the rounded minimum reach the maximum of the data.
RECURSIVE ExpandStep(_, _, _, _)
ExpandStep(st, mn, mx, split_number) ==
    IF RLe(mx, RAdd(MinTick(mn, st), RMul(F(split_number), StepValue(st))))
    THEN st
    ELSE ExpandStep(NextStep(st), mn, mx, split_number)

\* get_axis_values.  Every tick is a multiple of the step, so a single
\* interval cannot hold data on both sides of zero: the engine is applied to
\* data lists that it can bound (AxisInputOk).  tie settles the rounding of a mantissa that lies midway
\* between two candidates, zero_step is the step taken for a data range of
\* zero, which has no mantissa.
get_axis_values(data_list, split_number, tie, zero_step) ==
    LET mn == IF data_list = <<>> THEN F(0) ELSE RMinOf(data_list)
        mx == IF data_list = <<>> THEN F(0) ELSE RMaxOf(data_list)
        raw == RDiv(RSub(mx, mn), F(split_number))
        st0 == IF raw = F(0) THEN Step(zero_step, 0) ELSE SnapStep(raw, tie)
        st == ExpandStep(st0, mn, mx, split_number)
        min_tick == MinTick(mn, st)
        ticks == [i \in 1..(split_number + 1) |->
                    RAdd(min_tick, RMul(F(i - 1), StepValue(st)))]
    IN  [ticks |-> ticks,
         data |-> [i \in 1..(split_number + 1) |-> format_float(ticks[i])],
         min |-> ticks[1],
         max |-> ticks[split_number + 1]]

\* AxisValues::get_offset_height(value, pixel_extent): value mapped linearly
\* from [min, max] onto [0, pixel_extent].
get_offset_height_from_zero(av, value, max_height) ==
    RMul(RDiv(value, av.max), max_height)
get_offset_height(av, value, max_height) ==
    RMul(RDiv(RSub(value, av.min), RSub(av.max, av.min)), max_height)

AxisInputOk(data_list, split_number) ==
    /\ split_number >= 1
    /\ \/ split_number >= 2
       \/ \A i \in 1..Len(data_list) : RLe(F(0), data_list[i])
       \/ \A i \in 1..Len(data_list) : RLe(data_list[i], F(0))

TieBreaks == {"lower", "upper"}
ZeroSteps == {1, 2, 5, 10}

(***************************************************************************)
(* The document envelope (component.rs) and the canvas (canvas.rs)         *)
(***************************************************************************)
\* The digits after the decimal point of num/den, 0 <= num < den, until the
\* remainder is zero.
RECURSIVE FractionDigits(_, _)
FractionDigits(num, den) ==
    IF num = 0 THEN <<>>
    ELSE <<DecDigits[((10 * num) \div den) + 1]>>
         \o FractionDigits((10 * num) % den, den)

\* format!("{}", x) of a float: no decimal point for a whole number.
FloatDisplay(x) ==
    IF IsNaN(x) THEN <<"N", "a", "N">>
    ELSE IF x.d = 0 THEN (IF x.n < 0 THEN <<"-">> ELSE <<>>) \o <<"i", "n", "f">>
    ELSE LET a == Abs(x.n)
         IN  (IF x.n < 0 THEN <<"-">> ELSE <<>>)
             \o DecString(a \div x.d)
             \o (IF a % x.d = 0 THEN <<>>
                 ELSE <<".">> \o FractionDigits(a % x.d, x.d))

generate_svg_square(width, height, data) ==
    SVGTagToString("svg",
        <<Attr("width", FloatDisplay(width)),
          Attr("height", FloatDisplay(height)),
          Attr("viewBox", <<"0", " ", "0", " ">> \o FloatDisplay(width)
                          \o <<" ">> \o FloatDisplay(width)),
          Attr("xmlns", <<"http://www.w3.org/2000/svg">>)>>,
        Some(data))
generate_svg(width, height, data) ==
    SVGTagToString("svg",
        <<Attr("width", FloatDisplay(width)),
          Attr("height", FloatDisplay(height)),
          Attr("viewBox", <<"0", " ", "0", " ">> \o FloatDisplay(width)
                          \o <<" ">> \o FloatDisplay(height)),
          Attr("xmlns", <<"http://www.w3.org/2000/svg">>)>>,
        Some(data))

Box(left, top, right, bottom) ==
    [left |-> left, top |-> top, right |-> right, bottom |-> bottom]
BoxDefault == Box(F(0), F(0), F(0), F(0))
BoxAdd(a, b) ==
    Box(RAdd(a.left, b.left), RAdd(a.top, b.top),
        RAdd(a.right, b.right), RAdd(a.bottom, b.bottom))

\* A canvas view: the overall width and height and the cumulative margin.
\* The fragment list that all views of a canvas share is the variable
\* components.
\* path is history: the boxes the view was derived through.
CanvasNew(width, height) ==
    [width |-> width, height |-> height, margin |-> BoxDefault, path |-> <<>>]
child_replacing(v, margin) ==
    [v EXCEPT !.margin = margin, !.path = Append(@, margin)]
child(v, margin) ==
    [v EXCEPT !.margin = BoxAdd(v.margin, margin), !.path = Append(@, margin)]
\* c.margin = margin
SetMargin(v, margin) == [v EXCEPT !.margin = margin, !.path = <<margin>>]
CanvasWidth(v) == RSub(RSub(v.width, v.margin.left), v.margin.right)
CanvasHeight(v) == RSub(RSub(v.height, v.margin.top), v.margin.bottom)

OptAdd(opt, delta) == IF opt.some THEN Some(RAdd(opt.v, delta)) ELSE opt
MovePoints(points, dx, dy) ==
    [i \in 1..Len(points) |-> Point(RAdd(points[i].x, dx), RAdd(points[i].y, dy))]

\* A shape moved by the cumulative offset (left, top) of the view it is
\* drawn through.
Translate(v, s) ==
    LET dx == v.margin.left
        dy == v.margin.top
    IN  CASE s.kind \in {"Line", "Grid"} ->
                [s EXCEPT !.left = RAdd(@, dx), !.right = RAdd(@, dx),
                          !.top = RAdd(@, dy), !.bottom = RAdd(@, dy)]
          [] s.kind \in {"Rect", "Axis"} ->
                [s EXCEPT !.left = RAdd(@, dx), !.top = RAdd(@, dy)]
          [] s.kind = "Circle" ->
                [s EXCEPT !.cx = RAdd(@, dx), !.cy = RAdd(@, dy)]
          [] s.kind = "Text" ->
                [s EXCEPT !.x = OptAdd(@, dx), !.y = OptAdd(@, dy)]
          [] s.kind \in {"Polyline", "Polygon", "SmoothLine", "StraightLine"} ->
                [s EXCEPT !.points = MovePoints(@, dx, dy)]
          [] s.kind \in {"SmoothLineFill", "StraightLineFill"} ->
                [s EXCEPT !.points = MovePoints(@, dx, dy),
                          !.bottom = RAdd(@, dy)]

\* An axis: its line and one label per entry of data.
AxisSvg(a) ==
    LET line == LineSvg([kind |-> "Line", color |-> a.stroke_color,
                         stroke_width |-> F(1), left |-> a.left, top |-> a.top,
                         right |-> IF a.position = "Left" THEN a.left
                                   ELSE RAdd(a.left, a.width),
                         bottom |-> IF a.position = "Left"
                                    THEN RAdd(a.top, a.height) ELSE a.top])
        n == Len(a.data)
        label(i) ==
            LET along == IF a.position = "Left" THEN a.height ELSE a.width
                at == RDiv(RMul(along, F(2 * i - 1)), F(2 * n))
            IN  TextSvg([kind |-> "Text", text |-> a.data[i],
                         font_family |-> a.font_family,
                         font_size |-> a.font_size, fill |-> a.font_color,
                         x |-> Some(IF a.position = "Left" THEN a.left
                                    ELSE RAdd(a.left, at)),
                         y |-> Some(IF a.position = "Left" THEN RAdd(a.top, at)
                                    ELSE RAdd(a.top, a.name_gap)),
                         dx |-> None, dy |-> None, font_weight |-> None,
                         transform |-> None])
    IN  SVGTagToString("g", <<>>,
            Some(JoinStrings(<<line.str>> \o [i \in 1..n |-> label(i).str],
                             <<"\n">>)))

\* One entry of the fragment list: the translated shape and its markup.
Fragment(s) ==
    [shape |-> s,
     svg |-> IF s.kind = "Axis" THEN AxisSvg(s).str ELSE ComponentSvg(s).str]

\* A draw operation through view c: one translated fragment is appended to
\* the shared list.
draw_detached(list, v, s) == list
draw(list, v, s) == Append(list, Fragment(Translate(v, s)))

\* Canvas::svg, the finalize step: all fragments in one envelope.
CanvasSvg(list, v) ==
    generate_svg(v.width, v.height,
                 JoinStrings([i \in 1..Len(list) |-> list[i].svg], <<"\n">>))

otherThanColor == <<shapeVars, axisVars, chartVars>>
otherThanShape == <<colorVars, axisVars, chartVars>>
otherThanAxis == <<colorVars, shapeVars, chartVars>>
otherThanChart == <<colorVars, shapeVars, axisVars>>

NoAxisValues == [ticks |-> <<>>, data |-> <<>>, min |-> F(0), max |-> F(0)]
NoOffsetCall == [value |-> F(0), extent |-> F(0), result |-> F(0), n |-> 0]
AxisIdle ==
    /\ axis_params = [data_list |-> <<>>, split_number |-> 0]
    /\ axis_values = NoAxisValues
    /\ offset_call = NoOffsetCall

NoCanvas == CanvasNew(F(0), F(0))
NoLocals == [index |-> 0]
NoOut == [ok |-> FALSE, doc |-> EmptyString]
ChartIdle ==
    /\ cfg = [kind |-> "None"]
    /\ engine = [tie |-> "lower", zero_step |-> 1]
    /\ pc = "off"
    /\ canvas = NoCanvas
    /\ components = <<>>
    /\ loc = NoLocals
    /\ out = NoOut
    /\ prev_out = NoOut
    /\ renders = 0
    /\ finalized = 0
    /\ calls = <<>>

NoShape == [kind |-> "None"]
ShapeIdle ==
    /\ shape = NoShape
    /\ markup = EmptyString

ColorIdle ==
    /\ color = ColorDefault
    /\ text = <<>>
    /\ parsed = ColorDefault
    /\ cstep = "new"

InitColor ==
    /\ color \in Colors
    /\ text = <<>>
    /\ parsed = ColorDefault
    /\ cstep = "new"
    /\ ShapeIdle
    /\ AxisIdle
    /\ ChartIdle

\* c.hex()
Hex ==
    /\ cstep = "new"
    /\ text' = hex(color)
    /\ cstep' = "hex"
    /\ UNCHANGED <<color, parsed>>
    /\ UNCHANGED otherThanColor

\* Color::from(text)
Parse ==
    /\ cstep = "hex"
    /\ parsed' = ColorFrom(text)
    /\ cstep' = "parsed"
    /\ UNCHANGED <<color, text>>
    /\ UNCHANGED otherThanColor

\* Color::from(text) of a text that starts with '#': up to MaxHexLen
\* characters of a small alphabet, or up to three of a larger one.
MaxHexLen == 6
HexTexts ==
    {<<"#">> \o t :
        t \in UNION ({[1..n -> {"1", "+", "g"}] : n \in 0..MaxHexLen}
                     \cup {[1..n -> {"1", "F", "c", "g", "+", "-", "é", " "}] :
                              n \in 0..3})}
ParseText ==
    /\ cstep = "new"
    /\ color = ColorDefault
    /\ \E t \in HexTexts :
          /\ text' = t
          /\ parsed' = ColorFrom(t)
    /\ cstep' = "parsed_text"
    /\ UNCHANGED color
    /\ UNCHANGED otherThanColor

NextColor == Hex \/ Parse \/ ParseText

SpecColor == InitColor /\ [][NextColor]_vars

\* C9: for every colour c with a = 255, parsing c.hex() yields a colour with
\* the same r, g and b, and a = 255.
C9_HexRoundTrip ==
    (cstep = "parsed" /\ color.a = 255) =>
        /\ parsed.r = color.r
        /\ parsed.g = color.g
        /\ parsed.b = color.b
        /\ parsed.a = 255

\* An opaque colour with three different channels, two of them above 9 and
\* one with a letter digit, has been formatted and parsed back.
C9_Witness ==
    /\ cstep = "parsed"
    /\ color = Color(171, 9, 255, 255)
    /\ text = <<"#", "A", "B", "0", "9", "F", "F">>
    /\ parsed = color

(***************************************************************************)
(* The shape machine: any shape of the input sets is encoded.              *)
(***************************************************************************)
MaxPoints == 3
MaxGridLines == 2

StrokeWidths == {F(-1), F(0), F(1), R(3, 2)}
AlphaColors == {Color(171, 9, 255, a) : a \in Bytes}
FewColors == {Color(171, 9, 255, 255), Color(0, 0, 0, 0), Color(51, 51, 51, 51)}
OptFull == {None} \cup {Some(c) : c \in AlphaColors}
OptFew == {None} \cup {Some(c) : c \in FewColors}
\* (stroke, fill): one of the two ranges over every alpha
ColorPairs == (OptFull \X OptFew) \cup (OptFew \X OptFull)
OptFloats == {None, Some(F(2))}
SamplePoints == {Point(F(0), F(0)), Point(F(1), F(2)), Point(R(5, 2), F(1))}
PointLists == UNION {[1..n -> SamplePoints] : n \in 0..MaxPoints}
FixedPoints == <<Point(F(0), F(0)), Point(F(1), F(2))>>
\* (colour, points, stroke width) of a stroked path
StrokedPaths ==
    (OptFew \X PointLists \X StrokeWidths) \cup (OptFull \X {FixedPoints} \X {F(1)})
\* (fill, points) of a filled path
FilledPaths ==
    (FewColors \X PointLists) \cup (AlphaColors \X {FixedPoints})
Texts == {<<>>, <<"a", "b">>}
OptStrings == {None, Some(<<>>), Some(<<"b", "o", "l", "d">>)}

\* One call of svg() on a freshly built shape.
Encode(s) ==
    /\ shape' = s
    /\ markup' = ComponentSvg(s)
    /\ UNCHANGED otherThanShape

EncodeLine ==
    /\ shape = NoShape
    /\ \E c \in OptFull, sw \in StrokeWidths :
        Encode([kind |-> "Line", color |-> c, stroke_width |-> sw,
                left |-> F(0), top |-> F(1), right |-> F(10), bottom |-> R(3, 2)])

EncodeRect ==
    /\ shape = NoShape
    /\ \E cf \in ColorPairs, rx \in OptFloats, ry \in OptFloats :
        /\ ((cf[1] \in OptFew /\ cf[2] \in OptFew) \/ (rx = None /\ ry = None))
        /\ Encode([kind |-> "Rect", color |-> cf[1], fill |-> cf[2],
                   left |-> F(0), top |-> F(1), width |-> F(10),
                   height |-> F(4),
                   rx |-> rx, ry |-> ry])

EncodePolyline ==
    /\ shape = NoShape
    /\ \E t \in StrokedPaths :
        Encode([kind |-> "Polyline", color |-> t[1], points |-> t[2],
                stroke_width |-> t[3]])

EncodeCircle ==
    /\ shape = NoShape
    /\ \E cf \in ColorPairs, sw \in StrokeWidths :
        /\ ((cf[1] \in OptFew /\ cf[2] \in OptFew) \/ sw = F(1))
        /\ Encode([kind |-> "Circle", color |-> cf[1], fill |-> cf[2],
                   stroke_width |-> sw, cx |-> F(3), cy |-> F(4), r |-> F(2)])

EncodePolygon ==
    /\ shape = NoShape
    /\ \E t \in (OptFew \X OptFew \X PointLists)
             \cup {<<cf[1], cf[2], FixedPoints>> : cf \in ColorPairs} :
        Encode([kind |-> "Polygon", color |-> t[1], fill |-> t[2],
                points |-> t[3]])

EncodeText ==
    /\ shape = NoShape
    /\ \E t \in Texts, fill \in OptFull, x \in OptFloats, dy \in OptFloats,
       fw \in OptStrings, tr \in OptStrings :
        /\ (fill \in OptFew \/ (x = None /\ dy = None /\ fw = None /\ tr = None))
        /\ Encode([kind |-> "Text", text |-> t,
                   font_family |-> <<"A", "r", "i", "a", "l">>,
                   font_size |-> F(14), fill |-> fill, x |-> x, y |-> x,
                   dx |-> None, dy |-> dy, font_weight |-> fw,
                   transform |-> tr])

EncodeSmoothLine ==
    /\ shape = NoShape
    /\ \E t \in StrokedPaths :
        Encode([kind |-> "SmoothLine", color |-> t[1], points |-> t[2],
                stroke_width |-> t[3]])

EncodeStraightLine ==
    /\ shape = NoShape
    /\ \E t \in StrokedPaths :
        Encode([kind |-> "StraightLine", color |-> t[1], points |-> t[2],
                stroke_width |-> t[3]])

EncodeSmoothLineFill ==
    /\ shape = NoShape
    /\ \E t \in FilledPaths :
        Encode([kind |-> "SmoothLineFill", fill |-> t[1], points |-> t[2],
                bottom |-> F(5)])

EncodeStraightLineFill ==
    /\ shape = NoShape
    /\ \E t \in FilledPaths :
        Encode([kind |-> "StraightLineFill", fill |-> t[1], points |-> t[2],
                bottom |-> F(5)])

EncodeGrid ==
    /\ shape = NoShape
    /\ \E c \in OptFull, sw \in StrokeWidths, v \in 0..MaxGridLines,
       h \in 0..MaxGridLines, hv \in {{}, {0}}, hh \in {{}, {0, 1}} :
        /\ (c \in OptFew \/ (sw = F(1) /\ v = 1 /\ h = 1))
        /\ Encode([kind |-> "Grid", left |-> F(0), top |-> F(0),
                   right |-> F(10), bottom |-> F(5), color |-> c,
                   stroke_width |-> sw, verticals |-> v,
                   hidden_verticals |-> hv, horizontals |-> h,
                   hidden_horizontals |-> hh])

\* One call of to_string() on a tag built from a list of attributes.
MaxAttrs == 3
TagAttrs ==
    {Attr(k, v) : k \in {"x", "font-weight"},
                  v \in {<<>>, <<"1", ".", "0">>, <<"b">>}}
TagAttrLists == UNION {[1..n -> TagAttrs] : n \in 0..MaxAttrs}
DisplayTag ==
    /\ shape = NoShape
    /\ \E t \in {"rect", "text"}, attrs \in TagAttrLists,
          data \in {None, Some(<<"a">>)} :
          /\ shape' = [kind |-> "SVGTag", tag |-> t, attrs |-> attrs,
                       data |-> data]
          /\ markup' = SVGTagToString(t, attrs, data)
          /\ UNCHANGED otherThanShape

\* One call of generate_svg.
GenerateSvg ==
    /\ shape = NoShape
    /\ \E w \in {F(600), R(1201, 2), R(2401, 4)}, h \in {F(400), R(1601, 4)},
          data \in {<<>>, <<"a">>} :
          /\ shape' = [kind |-> "Svg", width |-> w, height |-> h, data |-> data]
          /\ markup' = generate_svg(w, h, data)
          /\ UNCHANGED otherThanShape

InitShape == ColorIdle /\ ShapeIdle /\ AxisIdle /\ ChartIdle

NextShape ==
    \/ EncodeLine
    \/ EncodeRect
    \/ EncodePolyline
    \/ EncodeCircle
    \/ EncodePolygon
    \/ EncodeText
    \/ EncodeSmoothLine
    \/ EncodeStraightLine
    \/ EncodeSmoothLineFill
    \/ EncodeStraightLineFill
    \/ EncodeGrid
    \/ DisplayTag
    \/ GenerateSvg

SpecShape == InitShape /\ [][NextShape]_vars

\* The hex group of a channel (0, 1, 2) in the text after '#': one character
\* in the short form, two otherwise.
HexGroup(h, channel) ==
    IF ByteLen(h) = 3 THEN Substring(h, channel, channel + 1)
    ELSE Substring(h, 2 * channel, 2 * channel + 2)
GroupSize(h) == IF ByteLen(h) = 3 THEN 1 ELSE 2
WellFormedGroup(g, size) ==
    Len(g) = size /\ \A i \in 1..Len(g) : ToDigit16(g[i]) >= 0
RECURSIVE HexValue(_)
HexValue(g) ==
    IF g = <<>> THEN 0
    ELSE 16 * HexValue(SubSeq(g, 1, Len(g) - 1)) + ToDigit16(g[Len(g)])
ChannelOfGroup(h, channel) ==
    IF WellFormedGroup(HexGroup(h, channel), GroupSize(h))
    THEN HexValue(HexGroup(h, channel)) ELSE 0

\* C14: for a text that starts with '#', every channel whose hex group is
\* malformed (a character that is not a hex digit, a sign among them, or a
\* group that is missing or too short) is 0 and every other channel has the
\* value of its group.
C14_MalformedGroupsAreZero ==
    cstep = "parsed_text" =>
        /\ parsed.r = ChannelOfGroup(Tail(text), 0)
        /\ parsed.g = ChannelOfGroup(Tail(text), 1)
        /\ parsed.b = ChannelOfGroup(Tail(text), 2)
        /\ parsed.a = 255

(***************************************************************************)
(* Reading an encoded tag back                                             *)
(***************************************************************************)
AttrsNamed(m, k) == SelectSeq(m.attrs, LAMBDA a : a.k = k)
AttrCount(m, k) == Len(AttrsNamed(m, k))
AttrValue(m, k) == AttrsNamed(m, k)[1].v

DigitValue(ch) ==
    IF \E i \in 1..10 : DecDigits[i] = ch
    THEN (CHOOSE i \in 1..10 : DecDigits[i] = ch) - 1
    ELSE -1
\* The number of tenths that a string "d.d" denotes, -1 for any other string.
TenthsOf(v) ==
    IF Len(v) = 3 /\ v[2] = "." /\ DigitValue(v[1]) >= 0 /\ DigitValue(v[3]) >= 0
    THEN 10 * DigitValue(v[1]) + DigitValue(v[3])
    ELSE -1

\* The colours a shape hands to its encoder as stroke and as fill.
StrokeColorOf(s) ==
    IF s.kind \in {"Line", "Rect", "Polyline", "Circle", "Polygon",
                   "SmoothLine", "StraightLine", "Grid"}
    THEN s.color ELSE None
FillColorOf(s) ==
    IF s.kind \in {"Rect", "Circle", "Polygon", "Text"} THEN s.fill
    ELSE IF s.kind \in {"SmoothLineFill", "StraightLineFill"} THEN Some(s.fill)
    ELSE None
FillOpacityKey(s) == IF s.kind = "Text" THEN "opacity" ELSE "fill-opacity"

\* A colour attribute and its opacity attribute in tag m: the colour is
\* written once as its hex string; the opacity is written exactly when alpha
\* is not 255 and is then alpha/255 to the nearest tenth; without a colour
\* there is no opacity attribute.
ColourPairOk(m, colour, ckey, okey) ==
    IF colour.some
    THEN /\ AttrCount(m, ckey) = 1
         /\ AttrValue(m, ckey) = hex(colour.v)
         /\ colour.v.a = 255 => AttrCount(m, okey) = 0
         /\ colour.v.a # 255 =>
                /\ AttrCount(m, okey) = 1
                /\ TenthsOf(AttrValue(m, okey)) >= 0
                /\ Abs(20 * colour.v.a - 510 * TenthsOf(AttrValue(m, okey))) <= 255
    ELSE /\ AttrCount(m, okey) = 0
         /\ AttrCount(m, ckey) = 0 \/ AttrValue(m, ckey) = <<"n", "o", "n", "e">>

\* C10: in every shape encoder each colour attribute (stroke, fill) comes
\* with its own opacity attribute exactly when the colour's alpha is not 255,
\* its value alpha/255 rounded to one decimal, and no opacity attribute is
\* written without its colour attribute.
C10_OpacityPairsWithColour ==
    markup # EmptyString =>
        /\ ColourPairOk(markup, StrokeColorOf(shape), "stroke", "stroke-opacity")
        /\ ColourPairOk(markup, FillColorOf(shape), "fill", FillOpacityKey(shape))
        /\ \A i \in 1..Len(markup.attrs) :
              markup.attrs[i].k \in {"opacity", "stroke-opacity", "fill-opacity"}
                  => markup.attrs[i].k \in {"stroke-opacity", FillOpacityKey(shape)}

\* A circle with an opaque stroke and a fill of alpha 51 was encoded: the
\* fill has its opacity 0.2 and the stroke has none.
C10_Witness ==
    /\ shape.kind = "Circle"
    /\ shape.color = Some(Color(171, 9, 255, 255))
    /\ shape.fill = Some(Color(171, 9, 255, 51))
    /\ AttrCount(markup, "fill-opacity") = 1
    /\ AttrValue(markup, "fill-opacity") = <<"0", ".", "2">>
    /\ AttrCount(markup, "stroke-opacity") = 0
    /\ AttrCount(markup, "stroke") = 1

\* The shapes that carry a stroke width, and those whose encoder returns
\* early when it is not positive.
HasStrokeWidth(s) ==
    s.kind \in {"Line", "Polyline", "Circle", "SmoothLine", "StraightLine", "Grid"}
GuardsStrokeWidth(s) ==
    s.kind \in {"Line", "Polyline", "SmoothLine", "StraightLine", "Grid"}

\* The statement of C11 as it was made: every shape that carries a stroke
\* width, Circle included, encodes to the empty string when the stroke width
\* is not positive.
C11_EveryStrokedShapeEmpty ==
    (HasStrokeWidth(shape) /\ RLe(shape.stroke_width, F(0)))
        => markup = EmptyString

\* C11: Line, Polyline, SmoothLine, StraightLine and Grid encode to the empty
\* string whenever the stroke width is not positive, whatever the other
\* fields are; a Circle is encoded whatever its stroke width is, and carries
\* it as its stroke-width attribute.
C11_StrokeWidthGuard ==
    /\ (GuardsStrokeWidth(shape) /\ RLe(shape.stroke_width, F(0)))
          => markup = EmptyString
    /\ shape.kind = "Circle" =>
          /\ markup.tag = "circle"
          /\ AttrCount(markup, "stroke-width") = 1
          /\ AttrValue(markup, "stroke-width") = format_float(shape.stroke_width)

\* A polyline with a colour, three points and the stroke width -1 was
\* encoded to the empty string.
C11_Witness ==
    /\ shape.kind = "Polyline"
    /\ shape.stroke_width = F(-1)
    /\ Len(shape.points) = 3
    /\ shape.color.some
    /\ markup = EmptyString

\* The attributes written in an encoded tag, read back from its string: each
\* is a space, the key, =", the characters of the value and a closing ".
RECURSIVE ValueEnd(_, _)
ValueEnd(str, i) == IF str[i] = "\"" THEN i ELSE ValueEnd(str, i + 1)
RECURSIVE ReadAttrs(_, _)
ReadAttrs(str, i) ==
    IF i + 2 <= Len(str) /\ str[i] = " " /\ str[i + 2] = "=\""
    THEN LET j == ValueEnd(str, i + 3)
         IN  <<Attr(str[i + 1], SubSeq(str, i + 3, j - 1))>>
             \o ReadAttrs(str, j + 1)
    ELSE <<>>
WrittenAttrs(m) == ReadAttrs(m.str, 3)
WrittenCount(m, k) == Len(SelectSeq(WrittenAttrs(m), LAMBDA a : a.k = k))

\* C12: the encoded tag holds exactly the attributes of the list whose value
\* is not empty, each once and in list order; for a text, each optional
\* attribute is there exactly when its field is set to a value whose string
\* is not empty.
C12_NonEmptyAttributesOnly ==
    /\ shape.kind = "SVGTag" =>
          /\ markup.str[1] = "<" /\ markup.str[2] = shape.tag
          /\ WrittenAttrs(markup)
                = SelectSeq(shape.attrs, LAMBDA a : a.v # <<>>)
    /\ (shape.kind = "Text" /\ markup # EmptyString) =>
          /\ \A i \in 1..Len(WrittenAttrs(markup)) :
                WrittenAttrs(markup)[i].v # <<>>
          /\ WrittenCount(markup, "font-family") = 1
          /\ WrittenCount(markup, "font-size") = 1
          /\ WrittenCount(markup, "x") = IF shape.x.some THEN 1 ELSE 0
          /\ WrittenCount(markup, "y") = IF shape.y.some THEN 1 ELSE 0
          /\ WrittenCount(markup, "dx") = IF shape.dx.some THEN 1 ELSE 0
          /\ WrittenCount(markup, "dy") = IF shape.dy.some THEN 1 ELSE 0
          /\ WrittenCount(markup, "font-weight")
                = IF shape.font_weight.some /\ shape.font_weight.v # <<>>
                  THEN 1 ELSE 0
          /\ WrittenCount(markup, "transform")
                = IF shape.transform.some /\ shape.transform.v # <<>>
                  THEN 1 ELSE 0

\* A tag was written from three attributes of which the middle one has an
\* empty value: the first and the third are in the string, in that order.
C12_Witness ==
    /\ shape.kind = "SVGTag"
    /\ shape.attrs = <<Attr("x", <<"1", ".", "0">>), Attr("font-weight", <<>>),
                       Attr("x", <<"b">>)>>
    /\ WrittenAttrs(markup) = <<Attr("x", <<"1", ".", "0">>), Attr("x", <<"b">>)>>

(***************************************************************************)
(* The axis machine: ticks are computed for a data list, then values are   *)
(* mapped to offsets.                                                      *)
(***************************************************************************)
MaxData == 2
MaxSplit == 3

DataValues == {F(-3), F(0), F(1), R(5, 2), F(7), F(12), F(120)}
DataLists == UNION {[1..n -> DataValues] : n \in 1..MaxData}
Extents == {F(0), F(100), F(250)}

InitAxis ==
    /\ ColorIdle /\ ShapeIdle /\ ChartIdle
    /\ axis_params \in [data_list : DataLists, split_number : 1..MaxSplit]
    /\ AxisInputOk(axis_params.data_list, axis_params.split_number)
    /\ axis_values = NoAxisValues
    /\ offset_call = NoOffsetCall

GetAxisValues ==
    /\ axis_values = NoAxisValues
    /\ \E tie \in TieBreaks, zero_step \in ZeroSteps :
          axis_values' = get_axis_values(axis_params.data_list,
                                         axis_params.split_number, tie, zero_step)
    /\ UNCHANGED <<axis_params, offset_call>>
    /\ UNCHANGED otherThanAxis

GetOffsetHeight ==
    /\ axis_values # NoAxisValues
    /\ offset_call.n = 0
    /\ \E value \in {axis_values.min, axis_values.max}
                    \cup {axis_params.data_list[i] :
                            i \in 1..Len(axis_params.data_list)},
          extent \in Extents :
          offset_call' = [value |-> value, extent |-> extent,
                          result |-> get_offset_height(axis_values, value, extent),
                          n |-> 1]
    /\ UNCHANGED <<axis_params, axis_values>>
    /\ UNCHANGED otherThanAxis

NextAxis == GetAxisValues \/ GetOffsetHeight

SpecAxis == InitAxis /\ [][NextAxis]_vars

MaxSeries == 2
MaxRenders == 2

\* let x_axis_height = 25.0_f32; bar_chart_margin = 5.0_f32;
\* bar_chart_gap = 3.0_f32
x_axis_height == 25
bar_chart_margin == 5
bar_chart_gap == 3

Series(name, data, index, label_show, category) ==
    [name |-> name, data |-> data, index |-> index, label_show |-> label_show,
     category |-> category]
SeriesPool ==
    {Series(<<"A">>, <<F(1), R(5, 2)>>, None, FALSE, None),
     Series(<<"B">>, <<F(12), F(7)>>, None, TRUE, Some("Line")),
     Series(<<"C">>, <<F(7)>>, Some(3), TRUE, Some("Bar")),
     Series(<<"D">>, <<>>, Some(0), FALSE, None)}
SeriesLists == UNION {[1..n -> SeriesPool] : n \in 0..MaxSeries}
Palettes ==
    {<<>>, <<Color(171, 9, 255, 255)>>,
     <<Color(171, 9, 255, 255), Color(0, 128, 9, 51)>>}

\* What the text measurement service answers for a label.
Measured(width, height) == [ok |-> TRUE, width |-> width, height |-> height]
Unmeasured == [ok |-> FALSE]

ChartDefault ==
    [kind |-> "HorizontalBarChart",
     width |-> F(600), height |-> F(400),
     margin |-> Box(F(5), F(5), F(5), F(5)),
     series_list |-> <<>>,
     series_colors |-> <<Color(171, 9, 255, 255), Color(0, 128, 9, 51)>>,
     x_axis_data |-> <<<<"Mon">>, <<"Tue">>>>,
     x_axis_height |-> F(30),
     y_axis_width |-> F(40),
     title_text |-> <<>>, title_height |-> F(30),
     legend_show |-> FALSE, legend_height |-> F(20),
     measure |-> Measured(F(35), F(14)),
     axis_split_number |-> 3,
     font_family |-> <<"Arial">>,
     background_color |-> Color(255, 255, 255, 255),
     stroke_color |-> Color(9, 9, 9, 255),
     font_color |-> Color(9, 9, 9, 255),
     grid_stroke_color |-> Color(128, 128, 128, 51),
     grid_stroke_width |-> F(1),
     series_stroke_width |-> F(2),
     series_smooth |-> FALSE,
     series_fill |-> FALSE,
     font_size |-> F(14),
     name_gap |-> F(5)]

\* BarChart::new: every series gets its position as index.
BarChartNew(series_list) ==
    [i \in 1..Len(series_list) |-> [series_list[i] EXCEPT !.index = Some(i - 1)]]

LayoutSeries ==
    <<Series(<<"A">>, <<F(1), R(5, 2)>>, Some(0), FALSE, None),
      Series(<<"B">>, <<F(12), F(7)>>, Some(1), TRUE, Some("Line"))>>

\* Charts whose series and palette vary, and charts whose layout varies.
SeriesCharts ==
    {[ChartDefault EXCEPT !.kind = k,
                          !.series_list = IF k = "BarChart" THEN BarChartNew(sl)
                                          ELSE sl,
                          !.series_colors = p] :
        k \in {"HorizontalBarChart", "BarChart"}, sl \in SeriesLists,
        p \in Palettes}
FrameCharts ==
    {[ChartDefault EXCEPT !.kind = k, !.series_list = LayoutSeries,
                          !.width = w, !.margin = m, !.title_text = tl[1],
                          !.legend_show = tl[2], !.legend_height = tl[3]] :
        k \in {"HorizontalBarChart", "BarChart"},
        w \in {F(600), R(1201, 2)},
        m \in {BoxDefault, Box(F(5), F(5), F(5), F(5))},
        tl \in {<<<<>>, FALSE, F(20)>>, <<<<"T">>, FALSE, F(20)>>,
                <<<<>>, TRUE, F(20)>>, <<<<"T">>, TRUE, F(40)>>}}
AxisCharts ==
    {[ChartDefault EXCEPT !.kind = k, !.series_list = LayoutSeries,
                          !.x_axis_data = xs, !.measure = ms,
                          !.axis_split_number = sn, !.series_smooth = sm] :
        k \in {"HorizontalBarChart", "BarChart"},
        xs \in {<<>>, <<<<"Mon">>, <<"Tue">>>>},
        ms \in {Unmeasured, Measured(F(35), F(14))},
        sn \in {1, 3},
        sm \in BOOLEAN}

\* The bar renderer's palette lookup is not part of the modelled sources:
\* bar charts are drawn with a palette that has an entry.
Charts ==
    {ch \in SeriesCharts \cup FrameCharts \cup AxisCharts :
        /\ ch.kind = "BarChart" => ch.series_colors # <<>>
        /\ ch.kind = "HorizontalBarChart" => ~ch.series_smooth}

\* Two ways in which the axis engine may settle a tie between candidate
\* steps and the step of a data range of zero.
Engines ==
    {[tie |-> "lower", zero_step |-> 1], [tie |-> "upper", zero_step |-> 5]}

\* The draw calls of one step, in order, all through view v.
RECURSIVE DrawAll(_, _, _)
DrawAll(list, v, shapes) ==
    IF shapes = <<>> THEN list
    ELSE DrawAll(draw(list, v, Head(shapes)), v, Tail(shapes))
Draws(v, shapes) ==
    /\ components' = DrawAll(components, v, shapes)
    /\ calls' = calls \o [i \in 1..Len(shapes) |->
                            [path |-> v.path, shape |-> shapes[i]]]

RectShape(fill, left, top, width, height) ==
    [kind |-> "Rect", color |-> None, fill |-> fill, left |-> left, top |-> top,
     width |-> width, height |-> height, rx |-> None, ry |-> None]
TextShape(t, x, y, dx, dy) ==
    [kind |-> "Text", text |-> t, font_family |-> cfg.font_family,
     font_size |-> cfg.font_size, fill |-> Some(cfg.font_color),
     x |-> x, y |-> y, dx |-> dx, dy |-> dy, font_weight |-> None,
     transform |-> None]
AxisShape(position, height, width, split_number, data) ==
    [kind |-> "Axis", position |-> position, left |-> F(0), top |-> F(0),
     height |-> height, width |-> width, split_number |-> split_number,
     data |-> data, stroke_color |-> Some(cfg.stroke_color),
     font_family |-> cfg.font_family, font_size |-> cfg.font_size,
     font_color |-> Some(cfg.font_color), name_gap |-> cfg.name_gap]
GridShape(right, bottom, verticals, hidden_verticals, horizontals) ==
    [kind |-> "Grid", left |-> F(0), top |-> F(0), right |-> right,
     bottom |-> bottom, color |-> Some(cfg.grid_stroke_color),
     stroke_width |-> cfg.grid_stroke_width, verticals |-> verticals,
     hidden_verticals |-> hidden_verticals, horizontals |-> horizontals,
     hidden_horizontals |-> {}]

Reverse(list) == [i \in 1..Len(list) |-> list[Len(list) - i + 1]]
RECURSIVE Concat(_)
Concat(lists) == IF lists = <<>> THEN <<>> ELSE Head(lists) \o Concat(Tail(lists))

Locals ==
    [title_height |-> F(0), legend_height |-> F(0), axis_top |-> F(0),
     axis_height |-> F(0), axis_width |-> F(0), y_axis_width |-> F(0),
     values |-> NoAxisValues, index |-> 0, series_labels_list |-> <<>>]

InitChart ==
    /\ ColorIdle /\ ShapeIdle /\ AxisIdle
    /\ cfg \in Charts
    /\ engine \in Engines
    /\ pc = "idle"
    /\ canvas = NoCanvas
    /\ components = <<>>
    /\ loc = Locals
    /\ out = NoOut
    /\ prev_out = NoOut
    /\ renders = 0
    /\ finalized = 0
    /\ calls = <<>>

\* svg(): let mut c = Canvas::new(self.width, self.height).  A second call
\* starts from a new canvas; what the first call returned is kept aside.
SvgStart_stale ==
    /\ pc \in {"idle", "done"}
    /\ renders < MaxRenders
    /\ pc' = "background"
    /\ canvas' = CanvasNew(cfg.width, cfg.height)
    /\ components' = components
    /\ calls' = <<>>
    /\ loc' = Locals
    /\ prev_out' = out
    /\ out' = NoOut
    /\ renders' = renders + 1
    /\ finalized' = 0
    /\ UNCHANGED <<cfg, engine>>
    /\ UNCHANGED otherThanChart
SvgStart ==
    /\ pc \in {"idle", "done"}
    /\ renders < MaxRenders
    /\ pc' = "background"
    /\ canvas' = CanvasNew(cfg.width, cfg.height)
    /\ components' = <<>>
    /\ calls' = <<>>
    /\ loc' = Locals
    /\ prev_out' = out
    /\ out' = NoOut
    /\ renders' = renders + 1
    /\ finalized' = 0
    /\ UNCHANGED <<cfg, engine>>
    /\ UNCHANGED otherThanChart

unchangedByStep == <<cfg, engine, out, prev_out, renders, finalized>>

\* self.render_background(c.child(Box::default())); c.margin = self.margin
RenderBackground ==
    /\ pc = "background"
    /\ LET v == child(canvas, BoxDefault)
       IN  Draws(v, <<RectShape(Some(cfg.background_color), F(0), F(0),
                                CanvasWidth(v), CanvasHeight(v))>>)
    /\ canvas' = SetMargin(canvas, cfg.margin)
    /\ pc' = "title"
    /\ UNCHANGED <<loc, unchangedByStep>>
    /\ UNCHANGED otherThanChart

\* let title_height = self.render_title(c.child(Box::default()))
RenderTitle ==
    /\ pc = "title"
    /\ IF cfg.title_text = <<>>
       THEN /\ UNCHANGED <<components, calls>>
            /\ loc' = [loc EXCEPT !.title_height = F(0)]
       ELSE /\ Draws(child(canvas, BoxDefault),
                     <<TextShape(cfg.title_text, Some(F(0)), Some(F(0)), None,
                                 None)>>)
            /\ loc' = [loc EXCEPT !.title_height = cfg.title_height]
    /\ pc' = "legend"
    /\ UNCHANGED <<canvas, unchangedByStep>>
    /\ UNCHANGED otherThanChart

\* let legend_height = self.render_legend(c.child(Box::default())): one entry
\* per series.
RenderLegend ==
    /\ pc = "legend"
    /\ IF ~cfg.legend_show \/ cfg.series_list = <<>>
       THEN /\ UNCHANGED <<components, calls>>
            /\ loc' = [loc EXCEPT !.legend_height = F(0)]
       ELSE /\ Draws(child(canvas, BoxDefault),
                     [i \in 1..Len(cfg.series_list) |->
                        TextShape(cfg.series_list[i].name, Some(F(50 * i)),
                                  Some(F(0)), None, None)])
            /\ loc' = [loc EXCEPT !.legend_height = cfg.legend_height]
    /\ pc' = "axis_top"
    /\ UNCHANGED <<canvas, unchangedByStep>>
    /\ UNCHANGED otherThanChart

IsHBar == cfg.kind = "HorizontalBarChart"
IsBar == cfg.kind = "BarChart"

\* HorizontalBarChart::svg: axis_top, axis_height and the child view that
\* replaces c when axis_top > 0.
HBarAxisTop ==
    /\ pc = "axis_top" /\ IsHBar
    /\ LET axis_top == IF RGt(loc.legend_height, loc.title_height)
                       THEN loc.legend_height ELSE loc.title_height
           axis_height == RSub(RSub(CanvasHeight(canvas), axis_top),
                               F(x_axis_height))
       IN  /\ loc' = [loc EXCEPT !.axis_top = axis_top,
                                 !.axis_height = axis_height]
           /\ canvas' = IF RGt(axis_top, F(0))
                        THEN child(canvas, Box(F(0), axis_top, F(0), F(0)))
                        ELSE canvas
    /\ pc' = "y_axis"
    /\ UNCHANGED <<components, calls, unchangedByStep>>
    /\ UNCHANGED otherThanChart

\* The category axis on the left: the labels reversed, as wide as the widest
\* measured label plus 5.
HBarYAxis ==
    /\ pc = "y_axis" /\ IsHBar
    /\ LET data == Reverse(cfg.x_axis_data)
           max_width == IF data # <<>> /\ cfg.measure.ok
                        THEN cfg.measure.width ELSE F(0)
           y_axis_width == RAdd(max_width, F(5))
       IN  /\ Draws(canvas, <<AxisShape("Left", loc.axis_height, y_axis_width,
                                        Len(cfg.x_axis_data), data)>>)
           /\ loc' = [loc EXCEPT !.y_axis_width = y_axis_width]
    /\ pc' = "axis_values"
    /\ UNCHANGED <<canvas, unchangedByStep>>
    /\ UNCHANGED otherThanChart

DataList == Concat([i \in 1..Len(cfg.series_list) |-> cfg.series_list[i].data])

\* let x_axis_values = get_axis_values(...)
HBarAxisValues ==
    /\ pc = "axis_values" /\ IsHBar
    /\ loc' = [loc EXCEPT !.values =
                  get_axis_values(DataList, cfg.axis_split_number, engine.tie,
                                  engine.zero_step)]
    /\ pc' = "x_axis"
    /\ UNCHANGED <<canvas, components, calls, unchangedByStep>>
    /\ UNCHANGED otherThanChart

\* The value axis at the bottom.
HBarXAxis ==
    /\ pc = "x_axis" /\ IsHBar
    /\ LET x_axis_width == RSub(CanvasWidth(canvas), loc.y_axis_width)
       IN  /\ Draws(child(canvas, Box(loc.y_axis_width, loc.axis_height, F(0),
                                      F(0))),
                    <<AxisShape("Bottom", F(x_axis_height), x_axis_width,
                                cfg.axis_split_number, loc.values.data)>>)
           /\ loc' = [loc EXCEPT !.axis_width = x_axis_width]
    /\ pc' = "grid"
    /\ UNCHANGED <<canvas, unchangedByStep>>
    /\ UNCHANGED otherThanChart

\* The grid; then the bars, unless there is no series.
HBarGrid ==
    /\ pc = "grid" /\ IsHBar
    /\ Draws(child(canvas, Box(loc.y_axis_width, F(0), F(0), F(0))),
             <<GridShape(loc.axis_width, loc.axis_height,
                         cfg.axis_split_number, {0}, 0)>>)
    /\ loc' = [loc EXCEPT !.index = 0, !.series_labels_list = <<>>]
    /\ pc' = IF cfg.series_list # <<>> THEN "series" ELSE "finalize"
    /\ UNCHANGED <<canvas, unchangedByStep>>
    /\ UNCHANGED otherThanChart

\* c1 = c.child(Box {left: y_axis_width, bottom: x_axis_height})
HBarC1 == child(canvas, Box(loc.y_axis_width, F(0), F(0), F(x_axis_height)))
HBarUnitHeight ==
    RDiv(CanvasHeight(HBarC1), F(Len(cfg.series_list[1].data)))
HBarBarHeight ==
    RDiv(RSub(RSub(HBarUnitHeight, RMul(F(bar_chart_margin), F(2))),
              RMul(F(bar_chart_gap), F(Len(cfg.series_list) - 1))),
         F(Len(cfg.series_list)))

\* The width of the bar of value p.
HBarWidth_of_first(series, p) ==
    RSub(CanvasWidth(HBarC1),
         get_offset_height(loc.values, series.data[1], CanvasWidth(HBarC1)))
HBarWidth(series, p) ==
    RSub(CanvasWidth(HBarC1),
         get_offset_height(loc.values, p, CanvasWidth(HBarC1)))

\* series_colors.get(series.index.unwrap_or(index))
\*     .unwrap_or_else(|| &self.series_colors[0])
HBarColor_by_position(series, index) ==
    IF index < Len(cfg.series_colors) THEN cfg.series_colors[index + 1]
    ELSE cfg.series_colors[1]
HBarColor(series, index) ==
    LET at == IF series.index.some THEN series.index.v ELSE index
    IN  IF at < Len(cfg.series_colors) THEN cfg.series_colors[at + 1]
        ELSE cfg.series_colors[1]

\* if series.label_show { series_labels_list.push(series_labels); }
PushSeriesLabels_always(list, series, series_labels) ==
    Append(list, series_labels)
PushSeriesLabels(list, series, series_labels) ==
    IF series.label_show THEN Append(list, series_labels) ELSE list

\* One turn of the loop over the series: the colour lookup, which indexes
\* the palette at 0 when the series' index is out of range, then one
\* rectangle per value.
HBarSeries ==
    /\ pc = "series" /\ IsHBar
    /\ LET index == loc.index
           series == cfg.series_list[index + 1]
           at == IF series.index.some THEN series.index.v ELSE index
           n == Len(cfg.series_colors)
           series_data_count == Len(series.data)
           top(i) == RAdd(RAdd(RMul(HBarUnitHeight,
                                    F(series_data_count - i - 1)),
                               F(bar_chart_margin)),
                          RMul(RAdd(HBarBarHeight, F(bar_chart_gap)), F(index)))
       IN  IF at >= n /\ n = 0
           THEN /\ pc' = "panic"
                /\ UNCHANGED <<components, calls, loc>>
           ELSE LET color_ == HBarColor(series, index)
                    rects == [k \in 1..series_data_count |->
                                RectShape(Some(color_), F(0), top(k - 1),
                                          HBarWidth(series, series.data[k]),
                                          HBarBarHeight)]
                    series_labels ==
                        [k \in 1..series_data_count |->
                            [point |-> Point(HBarWidth(series, series.data[k]),
                                             RAdd(top(k - 1),
                                                  RDiv(HBarBarHeight, F(2)))),
                             text |-> format_float(series.data[k])]]
                IN  /\ Draws(HBarC1, rects)
                    /\ loc' = [loc EXCEPT
                                 !.index = index + 1,
                                 !.series_labels_list =
                                    PushSeriesLabels(@, series, series_labels)]
                    /\ pc' = IF index + 1 < Len(cfg.series_list)
                             THEN "series" ELSE "labels"
    /\ UNCHANGED <<canvas, unchangedByStep>>
    /\ UNCHANGED otherThanChart

\* The value labels of the series that show them.
HBarLabels ==
    /\ pc = "labels" /\ IsHBar
    /\ LET labels == Concat(loc.series_labels_list)
           dy == IF cfg.measure.ok
                 THEN Some(RSub(RDiv(cfg.measure.height, F(2)), F(2)))
                 ELSE None
       IN  Draws(HBarC1,
                 [k \in 1..Len(labels) |->
                    TextShape(labels[k].text, Some(labels[k].point.x),
                              Some(labels[k].point.y), Some(F(3)), dy)])
    /\ pc' = "finalize"
    /\ UNCHANGED <<canvas, loc, unchangedByStep>>
    /\ UNCHANGED otherThanChart

\* c.svg(): the last step of both drivers.
Finalize ==
    /\ pc = "finalize"
    /\ out' = [ok |-> TRUE, doc |-> CanvasSvg(components, canvas)]
    /\ finalized' = finalized + 1
    /\ pc' = "done"
    /\ UNCHANGED <<cfg, engine, canvas, components, calls, loc, prev_out,
                   renders>>
    /\ UNCHANGED otherThanChart

\* BarChart::svg: axis_top, the value axis (get_y_axis_values), axis_height,
\* axis_width and the child view that replaces c when axis_top > 0.
BarAxisTop ==
    /\ pc = "axis_top" /\ IsBar
    /\ LET axis_top == IF RGt(loc.legend_height, loc.title_height)
                       THEN loc.legend_height ELSE loc.title_height
           axis_height == RSub(RSub(CanvasHeight(canvas), cfg.x_axis_height),
                               axis_top)
           axis_width == RSub(CanvasWidth(canvas), cfg.y_axis_width)
       IN  /\ loc' = [loc EXCEPT
                         !.values = get_axis_values(DataList,
                                        cfg.axis_split_number, engine.tie,
                                        engine.zero_step),
                         !.y_axis_width = cfg.y_axis_width,
                         !.axis_top = axis_top,
                         !.axis_height = axis_height,
                         !.axis_width = axis_width]
           /\ canvas' = IF RGt(axis_top, F(0))
                        THEN child(canvas, Box(F(0), axis_top, F(0), F(0)))
                        ELSE canvas
    /\ pc' = "grid"
    /\ UNCHANGED <<components, calls, unchangedByStep>>
    /\ UNCHANGED otherThanChart

\* self.render_grid(c.child(Box {left, right}), axis_width, axis_height)
BarGrid ==
    /\ pc = "grid" /\ IsBar
    /\ Draws(child(canvas, Box(loc.y_axis_width, F(0), loc.y_axis_width, F(0))),
             <<GridShape(loc.axis_width, loc.axis_height, 0, {},
                         cfg.axis_split_number)>>)
    /\ pc' = "y_axis"
    /\ UNCHANGED <<canvas, loc, unchangedByStep>>
    /\ UNCHANGED otherThanChart

\* self.render_y_axis(c.child(Box::default()), data, axis_height, y_axis_width)
BarYAxis ==
    /\ pc = "y_axis" /\ IsBar
    /\ Draws(child(canvas, BoxDefault),
             <<AxisShape("Left", loc.axis_height, loc.y_axis_width,
                         cfg.axis_split_number, Reverse(loc.values.data))>>)
    /\ pc' = "x_axis"
    /\ UNCHANGED <<canvas, loc, unchangedByStep>>
    /\ UNCHANGED otherThanChart

\* self.render_x_axis(c.child(Box {top, left}), x_axis_data, axis_width)
BarXAxis_skipped ==
    /\ pc = "x_axis" /\ IsBar
    /\ pc' = "bars"
    /\ UNCHANGED <<canvas, components, calls, loc, unchangedByStep>>
    /\ UNCHANGED otherThanChart
BarXAxis ==
    /\ pc = "x_axis" /\ IsBar
    /\ Draws(child(canvas, Box(loc.y_axis_width,
                               RSub(CanvasHeight(canvas), cfg.x_axis_height),
                               F(0), F(0))),
             <<AxisShape("Bottom", cfg.x_axis_height, loc.axis_width,
                         Len(cfg.x_axis_data), cfg.x_axis_data)>>)
    /\ pc' = "bars"
    /\ UNCHANGED <<canvas, loc, unchangedByStep>>
    /\ UNCHANGED otherThanChart

\* The partition of the series by category.
IsLineSeries(series) == series.category.some /\ series.category.v = "Line"
line_series_list == SelectSeq(cfg.series_list, IsLineSeries)
bar_series_list_all == cfg.series_list
bar_series_list == SelectSeq(cfg.series_list, LAMBDA s : ~IsLineSeries(s))

\* The palette entry of a series, the first entry when its index is out of
\* range.
SeriesColor(series, position) ==
    LET at == IF series.index.some THEN series.index.v ELSE position
    IN  IF at < Len(cfg.series_colors) THEN cfg.series_colors[at + 1]
        ELSE cfg.series_colors[1]

BarMaxHeight == RSub(CanvasHeight(canvas), cfg.x_axis_height)
BarView == child(canvas, Box(loc.y_axis_width, F(0), F(0), F(0)))

\* self.render_bar: one rectangle per value of every bar series, the series
\* side by side within each category slot.
BarRenderBar ==
    /\ pc = "bars" /\ IsBar
    /\ LET list == bar_series_list
           k == Len(list)
           unit_width == RDiv(CanvasWidth(BarView), F(Len(list[1].data)))
           bar_width == RDiv(RSub(RSub(unit_width,
                                       RMul(F(bar_chart_margin), F(2))),
                                  RMul(F(bar_chart_gap), F(k - 1))), F(k))
           rect(j, i) ==
               LET h == get_offset_height(loc.values, list[j].data[i],
                                          BarMaxHeight)
               IN  RectShape(Some(SeriesColor(list[j], j - 1)),
                             RAdd(RAdd(RMul(unit_width, F(i - 1)),
                                       F(bar_chart_margin)),
                                  RMul(RAdd(bar_width, F(bar_chart_gap)),
                                       F(j - 1))),
                             RSub(BarMaxHeight, h), bar_width, h)
       IN  Draws(BarView,
                 IF k = 0 THEN <<>>
                 ELSE Concat([j \in 1..k |->
                                [i \in 1..Len(list[j].data) |-> rect(j, i)]]))
    /\ pc' = "lines"
    /\ UNCHANGED <<canvas, loc, unchangedByStep>>
    /\ UNCHANGED otherThanChart

\* self.render_line: one path per line series.
BarRenderLine ==
    /\ pc = "lines" /\ IsBar
    /\ LET list == line_series_list
           path(j) ==
               LET data == list[j].data
                   unit_width == RDiv(CanvasWidth(BarView), F(Len(data)))
               IN  [kind |-> IF cfg.series_smooth THEN "SmoothLine"
                             ELSE "StraightLine",
                    color |-> Some(SeriesColor(list[j], j - 1)),
                    stroke_width |-> cfg.series_stroke_width,
                    points |->
                       [i \in 1..Len(data) |->
                          Point(RAdd(RMul(unit_width, F(i - 1)),
                                     RDiv(unit_width, F(2))),
                                RSub(BarMaxHeight,
                                     get_offset_height(loc.values, data[i],
                                                       BarMaxHeight)))]]
       IN  Draws(BarView, [j \in 1..Len(list) |-> path(j)])
    /\ pc' = "finalize"
    /\ UNCHANGED <<canvas, loc, unchangedByStep>>
    /\ UNCHANGED otherThanChart

NextChart ==
    \/ SvgStart
    \/ RenderBackground
    \/ RenderTitle
    \/ RenderLegend
    \/ HBarAxisTop
    \/ HBarYAxis
    \/ HBarAxisValues
    \/ HBarXAxis
    \/ HBarGrid
    \/ HBarSeries
    \/ HBarLabels
    \/ BarAxisTop
    \/ BarGrid
    \/ BarYAxis
    \/ BarXAxis
    \/ BarRenderBar
    \/ BarRenderLine
    \/ Finalize

Spec == InitChart /\ [][NextChart]_vars

(***************************************************************************)
(* What the drivers guarantee                                              *)
(***************************************************************************)
RECURSIVE BoxSum(_)
BoxSum(boxes) ==
    IF boxes = <<>> THEN BoxDefault ELSE BoxAdd(Head(boxes), BoxSum(Tail(boxes)))

\* The view derived from a new canvas in one step, by the sum of boxes.
CombinedView(boxes) == child(CanvasNew(cfg.width, cfg.height), BoxSum(boxes))

\* C1: a draw through a view derived by nested offsets (a, then b, ...)
\* appends the same translated fragment as a draw through the view derived
\* by the single combined offset a + b + ...
C1_NestedOffsetsCompose ==
    \A i \in 1..Len(calls) :
        i <= Len(components) =>
            components[i] = Fragment(Translate(CombinedView(calls[i].path),
                                               calls[i].shape))

\* The grid of a bar chart with a title was drawn through the top offset and
\* then the y-axis offset, below a margin of 5: it sits at (5 + 40, 5 + 30).
C1_Witness ==
    /\ IsBar
    /\ \E i \in 1..Len(calls) :
          /\ calls[i].shape.kind = "Grid"
          /\ calls[i].path = <<Box(F(5), F(5), F(5), F(5)),
                               Box(F(0), F(30), F(0), F(0)),
                               Box(F(40), F(0), F(40), F(0))>>
          /\ components[i].shape.left = F(45)
          /\ components[i].shape.top = F(35)

\* C2: the shared fragment list holds exactly one fragment per draw call, in
\* call order, whichever view the call went through, and the document that
\* finalizing the parent returns holds all of them.
C2_OneFragmentPerDraw ==
    /\ Len(components) = Len(calls)
    /\ \A i \in 1..Len(components) :
          /\ components[i].shape.kind = calls[i].shape.kind
          /\ components[i].svg = Fragment(components[i].shape).svg
    /\ pc = "done" =>
          out.doc.str = generate_svg(cfg.width, cfg.height,
                            JoinStrings([i \in 1..Len(calls) |-> components[i].svg],
                                        <<"\n">>)).str

\* A horizontal bar chart is finished: its bars went through the view c1, a
\* child of the child that replaced c, and are in the list behind the axes
\* and the grid.
C2_Witness ==
    /\ IsHBar /\ pc = "done" /\ out.ok
    /\ Len(components) >= 8
    /\ components[1].shape.kind = "Rect"
    /\ \E i \in 2..Len(calls) :
          /\ calls[i].shape.kind = "Rect"
          /\ Len(calls[i].path) = 3
          /\ calls[i - 1].shape.kind \in {"Grid", "Rect"}

\* C3: a second call of svg() on the same chart returns the same string, and
\* svg() never changes the chart.
C3_RendersAreIdentical ==
    /\ [][cfg' = cfg]_vars
    /\ [](renders >= 2 /\ pc = "done" => out = prev_out)

\* Two renders of a chart with series are done and returned a document.
C3_Witness ==
    /\ renders = 2 /\ pc = "done"
    /\ cfg.series_list # <<>>
    /\ out.ok /\ prev_out.ok
    /\ Len(out.doc.str) > 100

\* C4: HorizontalBarChart::svg never aborts part-way through rendering.
C4_NeverPanics == pc # "panic"

\* The number a decimal string denotes; NaN for any other string.
RECURSIVE DigitsValue(_)
DigitsValue(s) ==
    IF s = <<>> THEN 0
    ELSE 10 * DigitsValue(SubSeq(s, 1, Len(s) - 1)) + DigitValue(s[Len(s)])
AllDigits(s) == s # <<>> /\ \A i \in 1..Len(s) : DigitValue(s[i]) >= 0
ParseDecimal(s) ==
    LET dots == {i \in 1..Len(s) : s[i] = "."}
    IN  IF dots = {} THEN (IF AllDigits(s) THEN F(DigitsValue(s)) ELSE R(0, 0))
        ELSE LET d == CHOOSE i \in dots : TRUE
                 whole == SubSeq(s, 1, d - 1)
                 frac == SubSeq(s, d + 1, Len(s))
             IN  IF Cardinality(dots) = 1 /\ AllDigits(whole) /\ AllDigits(frac)
                 THEN RAdd(F(DigitsValue(whole)),
                           R(DigitsValue(frac), Pow10Int(Len(frac))))
                 ELSE R(0, 0)

\* C5: finalize is called once, as the last step of svg(); the document is
\* one svg element whose width and height are the chart's, whose viewBox is
\* "0 0 W H" with the same W and H, and whose body is the accumulated
\* fragments, also when c was replaced by a child view.
C5_EnvelopeOnceAndLast ==
    /\ pc # "done" => finalized = 0 /\ ~out.ok
    /\ pc = "done" =>
          /\ finalized = 1
          /\ out.ok
          /\ out.doc.tag = "svg"
          /\ AttrCount(out.doc, "width") = 1
          /\ AttrCount(out.doc, "height") = 1
          /\ AttrCount(out.doc, "viewBox") = 1
          /\ ParseDecimal(AttrValue(out.doc, "width")) = cfg.width
          /\ ParseDecimal(AttrValue(out.doc, "height")) = cfg.height
          /\ AttrValue(out.doc, "viewBox") =
                <<"0", " ", "0", " ">> \o AttrValue(out.doc, "width")
                \o <<" ">> \o AttrValue(out.doc, "height")
          /\ out.doc.str =
                <<"<", "svg">> \o AttrsToString(out.doc.attrs) \o <<">\n">>
                \o JoinStrings([i \in 1..Len(components) |-> components[i].svg],
                               <<"\n">>)
                \o <<"\n</", "svg", ">">>

\* A chart 600.5 wide with a title is done: c was replaced by the child below
\* the title, and the envelope is 600.5 by 400.
C5_Witness ==
    /\ pc = "done"
    /\ Len(canvas.path) = 2
    /\ canvas.margin.top = F(35)
    /\ AttrValue(out.doc, "width") = <<"6", "0", "0", ".", "5">>
    /\ AttrValue(out.doc, "viewBox") =
          <<"0", " ", "0", " ", "6", "0", "0", ".", "5", " ", "4", "0", "0">>

\* The bars of a horizontal bar chart, once all are drawn: the k-th bar is
\* the rectangle of the k-th value of the series taken one after the other.
BarsDrawn == IsHBar /\ pc \in {"labels", "finalize", "done"}
BarRects ==
    Tail(SelectSeq(components, LAMBDA f : f.shape.kind = "Rect"))
BarWidthOf(k) == BarRects[k].shape.width

AssignedIndex(i) ==
    LET series == cfg.series_list[i + 1]
    IN  IF series.index.some THEN series.index.v ELSE i
ExpectedColor(i) ==
    IF AssignedIndex(i) < Len(cfg.series_colors)
    THEN cfg.series_colors[AssignedIndex(i) + 1]
    ELSE cfg.series_colors[1]
\* The positions (from 1) of the series of the bar group and of the line
\* group of a bar chart.
Positions == [i \in 1..Len(cfg.series_list) |-> i]
BarPositions == SelectSeq(Positions, LAMBDA i : ~IsLineSeries(cfg.series_list[i]))
LinePositions == SelectSeq(Positions, LAMBDA i : IsLineSeries(cfg.series_list[i]))
\* One entry per value of every series at the given positions.
PerValue(positions, Entry(_, _)) ==
    Concat([j \in 1..Len(positions) |->
              [k \in 1..Len(cfg.series_list[positions[j]].data) |->
                  Entry(positions[j], k)]])
SeriesDrawn == pc \in {"finalize", "done"} \/ (IsHBar /\ pc = "labels")
SeriesPaths ==
    SelectSeq(components,
              LAMBDA f : f.shape.kind \in {"StraightLine", "SmoothLine"})

\* C17: every rectangle and every line of a series is drawn in palette[k],
\* k being the series' index (its position when it has none), and in
\* palette[0] when k is not a position of the palette; the series of a
\* BarChart carry their position as index, whatever their category is.
C17_PaletteLookup ==
    /\ IsBar => \A i \in 1..Len(cfg.series_list) :
                    cfg.series_list[i].index = Some(i - 1)
    /\ (IsHBar /\ SeriesDrawn) =>
          [k \in 1..Len(BarRects) |-> BarRects[k].shape.fill]
          = PerValue(Positions, LAMBDA i, k : Some(ExpectedColor(i - 1)))
    /\ (IsBar /\ SeriesDrawn) =>
          /\ [k \in 1..Len(BarRects) |-> BarRects[k].shape.fill]
             = PerValue(BarPositions, LAMBDA i, k : Some(ExpectedColor(i - 1)))
          /\ [k \in 1..Len(SeriesPaths) |-> SeriesPaths[k].shape.color]
             = [j \in 1..Len(LinePositions) |->
                  Some(ExpectedColor(LinePositions[j] - 1))]

\* A horizontal bar chart of a series with index 3 and a series without
\* index, drawn with a palette of two: the first in palette[0], the second,
\* at position 1, in palette[1].
C17_Witness ==
    /\ IsHBar /\ pc = "done"
    /\ Len(cfg.series_list) = 2
    /\ cfg.series_list[1].index = Some(3)
    /\ cfg.series_list[2].index = None
    /\ Len(cfg.series_colors) = 2
    /\ cfg.series_colors[1] # cfg.series_colors[2]
    /\ [k \in 1..Len(BarRects) |-> BarRects[k].shape.fill]
       = <<Some(cfg.series_colors[1]), Some(cfg.series_colors[2]),
           Some(cfg.series_colors[2])>>

(***************************************************************************)
(* The order of a render                                                   *)
(***************************************************************************)
\* What a fragment is: the grid, the axis on the left, the axis at the
\* bottom, or a shape of another kind.
FragmentLabel(f) ==
    IF f.shape.kind = "Axis" THEN <<"Axis", f.shape.position>>
    ELSE <<f.shape.kind>>
Labels == [i \in 1..Len(components) |-> FragmentLabel(components[i])]
IsFrame(l) == l \in {<<"Grid">>, <<"Axis", "Left">>, <<"Axis", "Bottom">>}
\* The grid and the axes in the order in which they were appended, and the
\* positions of the fragments that are neither.
FrameOrder == SelectSeq(Labels, IsFrame)
FramePositions == {i \in 1..Len(components) : IsFrame(Labels[i])}
IsPrefix(a, b) == Len(a) <= Len(b) /\ a = SubSeq(b, 1, Len(a))
GridFirst == <<<<"Grid">>, <<"Axis", "Left">>, <<"Axis", "Bottom">>>>
GridLast == <<<<"Axis", "Left">>, <<"Axis", "Bottom">>, <<"Grid">>>>
\* Every fragment other than the grid and the axes lies before all of them
\* (background, title, legend) or after all three of them (series geometry).
GeometryAfterFrame ==
    \A i \in 1..Len(components) :
        (~IsFrame(Labels[i]) /\ \E j \in FramePositions : j < i) =>
            /\ Len(FrameOrder) = 3
            /\ \A j \in FramePositions : j < i
            /\ Labels[i] \in {<<"Rect">>, <<"Text">>, <<"StraightLine">>,
                              <<"SmoothLine">>}
BarSteps ==
    <<"idle", "background", "title", "legend", "axis_top", "grid", "y_axis",
      "x_axis", "bars", "lines", "finalize", "done">>
HBarSteps ==
    <<"idle", "background", "title", "legend", "axis_top", "y_axis",
      "axis_values", "x_axis", "grid", "series", "labels", "finalize", "done">>
Steps == IF IsBar THEN BarSteps ELSE HBarSteps
StepNo(p) == CHOOSE i \in 1..Len(Steps) : Steps[i] = p
\* A step of a render: to the next step of the driver; a further series of
\* the loop over the series; past the loop when there is no series; out of
\* the render when the palette is empty; from a finished render to a new one.
RenderStep ==
    \/ pc' = pc
    \/ pc' # "panic" /\ pc # "panic" /\ StepNo(pc') = StepNo(pc) + 1
    \/ IsHBar /\ pc = "series" /\ pc' \in {"series", "panic"}
    \/ IsHBar /\ pc = "grid" /\ pc' = "finalize" /\ cfg.series_list = <<>>
    \/ pc = "done" /\ pc' = "background" /\ components' = <<>>
After(p) == pc # "panic" /\ StepNo(pc) > StepNo(p)
TopOffsetIsMax ==
    After("axis_top") =>
        /\ loc.axis_top \in {loc.title_height, loc.legend_height}
        /\ RLe(loc.title_height, loc.axis_top)
        /\ RLe(loc.legend_height, loc.axis_top)
FinalizeIsLast ==
    /\ pc = "done" => /\ out.ok /\ out.doc = CanvasSvg(components, canvas)
                      /\ finalized = 1
    /\ pc # "done" => finalized = 0
CommonOrder ==
    /\ TopOffsetIsMax
    /\ GeometryAfterFrame
    /\ After("background") => (components # <<>> /\ Labels[1] = <<"Rect">>)
    /\ (pc # "panic" /\ StepNo(pc) <= StepNo("axis_top")) => FrameOrder = <<>>
    /\ (After("x_axis") /\ After("grid")) => Len(FrameOrder) = 3
    /\ FinalizeIsLast

\* The statement of C18 as it was made: in both drivers the value axis is
\* computed before the grid and the axes, and the grid is appended before
\* any axis.
C18_GridBeforeAxes ==
    /\ CommonOrder
    /\ IsPrefix(FrameOrder, GridFirst)
    /\ FrameOrder # <<>> => loc.values # NoAxisValues

\* C18: every render goes once through background, title, legend and top
\* offset = max(title height, legend height); then BarChart::svg computes
\* the axis values and appends grid, y-axis, x-axis, while
\* HorizontalBarChart::svg appends the y-axis, computes the axis values and
\* appends the x-axis and then the grid; all series geometry follows the
\* grid and both axes, and finalize is the last step.
C18_RenderOrder ==
    /\ [](/\ CommonOrder
          /\ IsBar => /\ IsPrefix(FrameOrder, GridFirst)
                      /\ FrameOrder # <<>> => loc.values # NoAxisValues
          /\ IsHBar => /\ IsPrefix(FrameOrder, GridLast)
                       /\ Len(FrameOrder) >= 2 => loc.values # NoAxisValues
                       /\ pc = "axis_values" =>
                             /\ FrameOrder = <<<<"Axis", "Left">>>>
                             /\ loc.values = NoAxisValues)
    /\ [][RenderStep]_vars

\* A horizontal bar chart with a title was rendered: the y-axis, the x-axis
\* and then the grid were appended, after the title and before the bars.
C18_Witness ==
    /\ IsHBar /\ pc = "done"
    /\ cfg.title_text # <<>>
    /\ FrameOrder = GridLast
    /\ \E i \in 1..Len(components) :
          /\ Labels[i] = <<"Rect">>
          /\ \A j \in FramePositions : j < i
    /\ Labels[2] = <<"Text">>

(***************************************************************************)
(* The two groups of a bar chart                                           *)
(***************************************************************************)
\* How often the series at position i of the list occurs in a group.  The
\* series of a bar chart carry their position as index.
Occurrences(group, i) ==
    Len(SelectSeq(group, LAMBDA s : s = cfg.series_list[i]))
InOrder(group) ==
    \A a, b \in 1..Len(group) : a < b => group[a].index.v < group[b].index.v
Partitioned == IsBar /\ After("x_axis")
GroupsDrawn == IsBar /\ After("lines")

\* C19: in BarChart::svg a series is in the line group exactly when its
\* category is Line and in the bar group otherwise, never in both; both
\* groups keep the order of the series list; the rectangles drawn are those
\* of the bar group and there is one path per series of the line group.
C19_PartitionByCategory ==
    /\ Partitioned =>
          /\ \A i \in 1..Len(cfg.series_list) :
                /\ Occurrences(line_series_list, i) =
                      (IF cfg.series_list[i].category = Some("Line") THEN 1 ELSE 0)
                /\ Occurrences(bar_series_list, i) =
                      (IF cfg.series_list[i].category = Some("Line") THEN 0 ELSE 1)
          /\ Len(line_series_list) + Len(bar_series_list) = Len(cfg.series_list)
          /\ InOrder(line_series_list) /\ InOrder(bar_series_list)
          /\ Len(bar_series_list) = Len(cfg.series_list) - Len(LinePositions)
    /\ GroupsDrawn =>
          /\ Len(BarRects) = Len(PerValue(BarPositions, LAMBDA i, k : k))
          /\ Len(SeriesPaths) = Len(LinePositions)
          /\ \A j \in 1..Len(SeriesPaths) :
                Len(SeriesPaths[j].shape.points)
                = Len(cfg.series_list[LinePositions[j]].data)

\* A bar chart of two series, the second tagged Line, was rendered: one
\* series in the bar group, two rectangles and one path.
C19_Witness ==
    /\ IsBar /\ pc = "done"
    /\ Len(cfg.series_list) = 2
    /\ cfg.series_list[1].category = None
    /\ cfg.series_list[2].category = Some("Line")
    /\ Len(bar_series_list) = 1
    /\ Len(BarRects) = 2
    /\ Len(SeriesPaths) = 1

(***************************************************************************)
(* The bars and the labels of a horizontal bar chart                       *)
(***************************************************************************)
\* What was appended after the grid, the last fragment of the frame.
SeriesGeometry ==
    LET grid == CHOOSE i \in FramePositions : Labels[i] = <<"Grid">>
    IN  SubSeq(components, grid + 1, Len(components))
\* The same fragments as they were handed to the canvas, before the view's
\* offset was applied.
SeriesCalls ==
    SubSeq(calls, Len(calls) - Len(SeriesGeometry) + 1, Len(calls))
\* Per (series, value) pair, in series order then value order: the series'
\* position and the value; and the pairs of the series that show labels.
Pairs ==
    PerValue(Positions,
             LAMBDA i, k : [series |-> i, value |-> cfg.series_list[i].data[k]])
LabelledPairs ==
    SelectSeq(Pairs, LAMBDA pr : cfg.series_list[pr.series].label_show)
HBarDrawn == IsHBar /\ pc \in {"finalize", "done"} /\ cfg.series_list # <<>>

\* C20: HorizontalBarChart::svg with a non-empty series list appends one
\* rectangle per (series, value) pair, in series order then value order,
\* and after all of them one text per value of every series that shows
\* labels, in the same order, and no text for the other series.
C20_RectsThenLabels ==
    /\ (IsHBar /\ pc = "labels") =>
          /\ Len(SeriesGeometry) = Len(Pairs)
          /\ \A k \in 1..Len(Pairs) : SeriesGeometry[k].shape.kind = "Rect"
    /\ HBarDrawn =>
          /\ Len(SeriesGeometry) = Len(Pairs) + Len(LabelledPairs)
          /\ \A k \in 1..Len(Pairs) :
                LET rect == SeriesGeometry[k].shape
                    series == cfg.series_list[Pairs[k].series]
                IN  /\ rect.kind = "Rect"
                    /\ rect.width = HBarWidth(series, Pairs[k].value)
                    /\ rect.fill = Some(ExpectedColor(Pairs[k].series - 1))
          /\ \A k \in 1..Len(LabelledPairs) :
                LET label == SeriesGeometry[Len(Pairs) + k].shape
                    series == cfg.series_list[LabelledPairs[k].series]
                IN  /\ label.kind = "Text"
                    /\ label.text = format_float(LabelledPairs[k].value)
                    /\ SeriesCalls[Len(Pairs) + k].shape.x
                       = Some(HBarWidth(series, LabelledPairs[k].value))

\* A horizontal bar chart of a series without labels and a series with
\* labels, two values each, was rendered: four rectangles and then the two
\* labels of the second series.
C20_Witness ==
    /\ HBarDrawn /\ pc = "done"
    /\ Len(cfg.series_list) = 2
    /\ ~cfg.series_list[1].label_show
    /\ cfg.series_list[2].label_show
    /\ Len(cfg.series_list[1].data) = 2
    /\ [k \in 1..Len(SeriesGeometry) |-> SeriesGeometry[k].shape.kind]
       = <<"Rect", "Rect", "Rect", "Rect", "Text", "Text">>
    /\ SeriesGeometry[5].shape.text = <<"1", "2", ".", "0">>
    /\ SeriesGeometry[6].shape.text = <<"7", ".", "0">>

(***************************************************************************)
(* Where the bars of a horizontal bar chart lie                            *)
(***************************************************************************)
\* Per (series, data index) pair, in the order of the rectangles: the
\* series' position (from 1) and the data index (from 0).
BarSlots == PerValue(Positions, LAMBDA i, k : [series |-> i, at |-> k - 1])
\* The rectangle of the k-th pair as it was handed to the view c1, whose
\* height is the height of the plot region.
BarOf(k) == SeriesCalls[k].shape
BarBottom(k) == RAdd(BarOf(k).top, BarOf(k).height)
PlotHeight == CanvasHeight(HBarC1)
\* [lo, hi] of the category slot j of n slots of equal height.
SlotTop(j, n) == RDiv(RMul(PlotHeight, F(j)), F(n))

\* C21: in a render of a horizontal bar chart with a non-empty series list,
\* every bar has height >= 0 and lies between 0 and the plot height, the bars
\* of distinct (series, data index) pairs do not overlap vertically, and the
\* bar of data index i of a series of n values lies in category slot n-1-i.
C21_BarsInsidePlot ==
    HBarDrawn =>
        /\ Len(SeriesCalls) >= Len(BarSlots)
        /\ \A k \in 1..Len(BarSlots) :
              LET n == Len(cfg.series_list[BarSlots[k].series].data)
                  slot == n - 1 - BarSlots[k].at
              IN  /\ RLe(F(0), BarOf(k).height)
                  /\ RLe(F(0), BarOf(k).top)
                  /\ RLe(BarBottom(k), PlotHeight)
                  /\ RLe(SlotTop(slot, n), BarOf(k).top)
                  /\ RLe(BarBottom(k), SlotTop(slot + 1, n))
        /\ \A k, l \in 1..Len(BarSlots) :
              k < l => \/ RLe(BarBottom(k), BarOf(l).top)
                       \/ RLe(BarBottom(l), BarOf(k).top)

(***************************************************************************)
(* The numbers in the output                                               *)
(***************************************************************************)
\* The number a string denotes, with an optional sign; NaN for a string that
\* is not a decimal number.
ParseNumber(v) ==
    IF v # <<>> /\ Head(v) = "-" THEN RNeg(ParseDecimal(Tail(v)))
    ELSE ParseDecimal(v)
\* v is what the shared formatter writes for the number that v denotes.
IsFloatFormatted(v) ==
    /\ IsFinite(ParseNumber(v))
    /\ format_float(ParseNumber(v)) = v

\* The numbers of a value: its pieces between spaces, commas and path
\* command letters.
RECURSIVE Tokens(_, _)
Tokens(v, cur) ==
    IF v = <<>> THEN (IF cur = <<>> THEN <<>> ELSE <<cur>>)
    ELSE IF Head(v) \in {" ", ",", "M", "L", "C"}
         THEN (IF cur = <<>> THEN <<>> ELSE <<cur>>) \o Tokens(Tail(v), <<>>)
         ELSE Tokens(Tail(v), Append(cur, Head(v)))
NumericTokens(v) == Tokens(v, <<>>)

NumericKeys ==
    {"x", "y", "width", "height", "rx", "ry", "x1", "y1", "x2", "y2", "cx",
     "cy", "r", "stroke-width", "font-size", "dx", "dy", "opacity",
     "stroke-opacity", "fill-opacity", "points", "d"}
\* Every number in the attributes of tag m is written by the formatter.
NumbersFormatted(m) ==
    \A i \in 1..Len(WrittenAttrs(m)) :
        WrittenAttrs(m)[i].k \in NumericKeys =>
            \A j \in 1..Len(NumericTokens(WrittenAttrs(m)[i].v)) :
                IsFloatFormatted(NumericTokens(WrittenAttrs(m)[i].v)[j])
IsShape(s) ==
    s.kind \in {"Line", "Rect", "Polyline", "Circle", "Polygon", "Text",
                "SmoothLine", "StraightLine", "SmoothLineFill",
                "StraightLineFill", "Grid"}

\* The statement of C13 as it was made: every number in the output, those of
\* the document envelope included, is written by the shared formatter.
C13_EveryNumberFormatted ==
    /\ (IsShape(shape) /\ markup # EmptyString) => NumbersFormatted(markup)
    /\ shape.kind = "Svg" =>
          /\ NumbersFormatted(markup)
          /\ IsFloatFormatted(NumericTokens(AttrValue(markup, "viewBox"))[3])
          /\ IsFloatFormatted(NumericTokens(AttrValue(markup, "viewBox"))[4])

\* C13: every number in the attributes of an encoded shape is written by the
\* shared formatter; the width, the height and the viewBox of the document
\* envelope are written by the default formatting of a float instead, which
\* keeps all digits of the number and writes a whole number without decimals.
C13_ShapeNumbersFormatted ==
    /\ (IsShape(shape) /\ markup # EmptyString) => NumbersFormatted(markup)
    /\ shape.kind = "Svg" =>
          /\ ParseNumber(AttrValue(markup, "width")) = shape.width
          /\ ParseNumber(AttrValue(markup, "height")) = shape.height
          /\ NumericTokens(AttrValue(markup, "viewBox"))
                = <<<<"0">>, <<"0">>, AttrValue(markup, "width"),
                    AttrValue(markup, "height")>>

\* A rectangle with corner radii was encoded: x, y, width, height, rx and ry
\* are all written with one decimal.
C13_Witness ==
    /\ shape.kind = "Rect"
    /\ shape.rx = Some(F(2)) /\ shape.ry = Some(F(2))
    /\ AttrValue(markup, "rx") = <<"2", ".", "0">>
    /\ AttrValue(markup, "width") = <<"1", "0", ".", "0">>
    /\ NumbersFormatted(markup)

(***************************************************************************)
(* Path data, read back                                                    *)
(***************************************************************************)
\* The commands of a path: at every command letter a new command begins; its
\* numbers are the pieces that follow, between spaces and commas.
CommandStarts(v) ==
    SelectSeq([i \in 1..Len(v) |-> i], LAMBDA i : v[i] \in {"M", "L", "C"})
PathOf(m) ==
    LET v == AttrValue(m, "d")
        starts == CommandStarts(v)
    IN  [i \in 1..Len(starts) |->
            [action |-> v[starts[i]],
             nums |-> Tokens(SubSeq(v, starts[i] + 1,
                                    IF i < Len(starts) THEN starts[i + 1] - 1
                                    ELSE Len(v)),
                             <<>>)]]
\* The point a command ends at: its last two numbers.
EndPoint(cmd) == SubSeq(cmd.nums, Len(cmd.nums) - 1, Len(cmd.nums))
\* The points a path visits: the end point of every command other than a
\* move to the point the path is already at.
Vertices(path) ==
    LET kept == SelectSeq([i \in 1..Len(path) |-> i],
                          LAMBDA i : ~(i > 1 /\ path[i].action = "M"
                                       /\ EndPoint(path[i]) = EndPoint(path[i - 1])))
    IN  [k \in 1..Len(kept) |-> EndPoint(path[kept[k]])]
Written(p) == <<format_float(p.x), format_float(p.y)>>

\* C15: the path data of a StraightLine with n >= 1 points and a positive
\* stroke width is n commands: M to the first point, then one L per further
\* point, in input order, equal points included.
C15_StraightLineCommands ==
    (shape.kind = "StraightLine" /\ shape.points # <<>>
     /\ RGt(shape.stroke_width, F(0))) =>
        /\ markup.tag = "path"
        /\ AttrCount(markup, "d") = 1
        /\ Len(PathOf(markup)) = Len(shape.points)
        /\ \A i \in 1..Len(shape.points) :
              /\ PathOf(markup)[i].action = IF i = 1 THEN "M" ELSE "L"
              /\ PathOf(markup)[i].nums = Written(shape.points[i])

\* A straight line through three points, the first two of them equal, was
\* encoded as M, L, L.
C15_Witness ==
    /\ shape.kind = "StraightLine"
    /\ Len(shape.points) = 3
    /\ shape.points[1] = shape.points[2]
    /\ shape.points[3] # shape.points[1]
    /\ shape.stroke_width = R(3, 2)
    /\ [i \in 1..3 |-> PathOf(markup)[i].action] = <<"M", "L", "L">>

IsFillVariant(s) == s.kind \in {"StraightLineFill", "SmoothLineFill"}
\* The points of a closed region under the points of s: the points, then
\* (last.x, bottom), (first.x, bottom) and the first point again.
ClosedRegion(s) ==
    LET first == s.points[1]
        last == s.points[Len(s.points)]
    IN  [i \in 1..Len(s.points) |-> Written(s.points[i])]
        \o <<Written(Point(last.x, s.bottom)), Written(Point(first.x, s.bottom)),
             Written(first)>>
FillPathOk(s, m) ==
    /\ m.tag = "path"
    /\ AttrCount(m, "d") = 1
    /\ Vertices(PathOf(m)) = ClosedRegion(s)
    /\ AttrCount(m, "fill") = 1
    /\ AttrValue(m, "fill") = hex(s.fill)
    /\ AttrCount(m, "stroke") = 0
    /\ AttrCount(m, "stroke-width") = 0

\* The statement of C16 as it was made: for n >= 1 points the path of a fill
\* variant is the closed region, with a fill and no stroke.
C16_FillPathClosedForAnyFill ==
    (IsFillVariant(shape) /\ shape.points # <<>>) => FillPathOk(shape, markup)

\* C16: for n >= 1 points and a fill whose alpha is not 0, the path of a fill
\* variant visits the points in order, then (last.x, bottom), (first.x,
\* bottom) and the first point again, and the tag has a fill and no stroke.
\* StraightLineFill writes one M and then only L; SmoothLineFill writes the
\* curve, then a second M at the last point and three L.  With alpha 0 the
\* output is the empty string.
C16_FillPathClosed ==
    (IsFillVariant(shape) /\ shape.points # <<>>) =>
        IF shape.fill.a = 0 THEN markup = EmptyString
        ELSE /\ FillPathOk(shape, markup)
             /\ LET path == PathOf(markup)
                    n == Len(shape.points)
                IN  IF shape.kind = "StraightLineFill"
                    THEN /\ Len(path) = n + 3
                         /\ \A i \in 2..(n + 3) : path[i].action = "L"
                    ELSE /\ Len(path) = n + 4
                         /\ path[n + 1].action = "M"
                         /\ \A i \in (n + 2)..(n + 4) : path[i].action = "L"

\* The fill under a smooth line through three points was encoded: the path
\* ends where it began.
C16_Witness ==
    /\ shape.kind = "SmoothLineFill"
    /\ Len(shape.points) = 3
    /\ shape.points[1] # shape.points[3]
    /\ shape.fill.a = 51
    /\ Len(PathOf(markup)) = 7
    /\ Vertices(PathOf(markup))[6] = Written(shape.points[1])
====
